---- MODULE Spec2Model ----
(***************************************************************************)
(* A model of the map editor's mesh engine (src/src/mesh.rs), its texture  *)
(* atlas mapping (src/src/schema.rs), its TileRange iterator               *)
(* (src/src/tile_range.rs) and its document: the edit history              *)
(* (src/src/load_file.rs, src/src/sync.rs), the viewport that follows it   *)
(* (src/src/viewport.rs) and the confirmation of the actions that close it *)
(* (src/src/ui.rs).                                                        *)
(*                                                                         *)
(* Numbers.  The program computes in f32/f64.  The model computes the same *)
(* expressions exactly, in fixed point:                                    *)
(*   - a height or a vertex coordinate c is the integer c * PosScale       *)
(*     (1/3200: 2.6 is 8320, the highlight offset 0.01 is 32, the half     *)
(*     trim size 1/32 is 100);                                             *)
(*   - a texture coordinate t is the integer t * UvScale (1/16000: one     *)
(*     atlas cell is 1000, the 0.001 inset is 16).                         *)
(* Rounding of the floating-point operations is not modelled there.  The   *)
(* heights of the document are f64 values with their rounding (see F64).   *)
(***************************************************************************)
EXTENDS Integers, Sequences, FiniteSets, TLC

VARIABLES
    mode,        \* which machine this behaviour runs: "atlas", "iter", "mesh", "highlight",
                 \* "builder", "editor", "edit_map", "history", "list", "close"
    material,    \* atlas: the MpsMaterial index under test
    uv,          \* atlas: the last to_uv_coords result <<u1, v1, u2, v2>>, or None
    decoded,     \* atlas: the last from_uv_coords result, or None
    range,       \* iter: the TileRange the iterator was made from
    current,     \* iter: TileRangeIterator.current (None when exhausted)
    lastCall,    \* iter: the last call made on the iterator, <<name, n>>
    result,      \* iter: what the last call returned (None or a coordinate)
    yielded,     \* iter: what next() returned since into_iter, while only next() was called
    onlyNext,    \* iter: FALSE once nth() was called since into_iter
    map,         \* mesh: the tile grid [rows, cols, tiles]
    mesh,        \* mesh: what the last mesh_map returned, or None; builder: the State
                 \* the builders push to and the number of calls made
    highlight,   \* mesh: what the last mesh_top_highlights returned, or None
    file,        \* editor: the LoadedFile resource (document, history, selection)
    world,       \* editor: the viewport's entities (map meshes, editing gizmos);
                 \* close: the UiState, the messages and the dialogs
    crashed,     \* editor: None, or the panic that ended the program
    tick         \* editor: what the last frame did (bookkeeping of the model);
                 \* history: the last call; list: the vector and the last step;
                 \* close: the close actions registered, run, cancelled, confirmed

vars == <<mode, material, uv, decoded, range, current, lastCall, result,
          yielded, onlyNext, map, mesh, highlight, file, world, crashed, tick>>

atlasVars == <<material, uv, decoded>>
iterVars == <<range, current, lastCall, result, yielded, onlyNext>>
meshVars == <<map, mesh, highlight>>
editorVars == <<file, world, crashed, tick>>

\* Option<T>: None is the empty tuple, Some(v) the one-element tuple.
None == <<>>
Some(v) == <<v>>

\* The element of a set of one element.  TLC evaluates the arguments of an operator
\* and the definitions of a LET where they are used, each time they are used; a
\* bound variable holds a value.  The({e(x) : x \in {v}}) is e(v) with v evaluated
\* once and before e, as one statement follows another on the &mut State of the code.
The(S) == CHOOSE r \in S : TRUE

(***************************************************************************)
(* Fixed-point scales and bounds.                                          *)
(***************************************************************************)
\* 1/32 (TRIM_SIZE_2) and 1/100 (the highlight offset) are both whole units.
PosScale == 32 * 100
\* 16 atlas cells of 1000 units each, so that the 0.001 inset is 16 units.
UvScale == 16 * 1000

\* Maps have at most MaxArea tiles (every shape rows x cols with that many).
MaxArea == 3
\* A full wall material stack has MaxStack entries.
MaxStack == 2
\* Maps whose tiles each have connections of their own have at most MaxGateArea tiles.
MaxGateArea == 2
\* The builders are called on maps of at most MaxBuilderArea tiles, MaxCalls times.
MaxBuilderArea == 2
MaxCalls == 2
\* At most MaxRequests close actions are registered in a run of the close machine.
MaxRequests == 2
\* ListEdits are tried on vectors of at most MaxVec items, each in 0..MaxItem.
MaxVec == 3
MaxItem == 2
\* Coordinates of the TileRanges the iterator is tried on lie in 0..MaxCoord.
MaxCoord == 2
\* nth(n) is tried for n in 0..MaxN.
MaxN == 10

Min(a, b) == IF a <= b THEN a ELSE b
Max(a, b) == IF a >= b THEN a ELSE b
Abs(a) == IF a >= 0 THEN a ELSE -a

(***************************************************************************)
(* schema.rs: MpsMaterial and the 16x16 atlas.                             *)
(***************************************************************************)
ATLAS_SIZE_0 == 16
ATLAS_SIZE_1 == 16
TEXTURES_COUNT == ATLAS_SIZE_0 * ATLAS_SIZE_1
\* 1.0 / 16 in texture units; 0.001 in texture units.
U_INCREMENT == UvScale \div ATLAS_SIZE_0
V_INCREMENT == UvScale \div ATLAS_SIZE_1
UvInset == 16

from_index(index) == IF index < TEXTURES_COUNT THEN Some(index) ELSE None

\* Mutants of to_uv_coords: the row not flipped and counted from 1 (v2 leaves the
\* atlas); the row flip dropped (another cell is addressed).
to_uv_coords_row_off_by_one(m) ==
    LET u == ((m % ATLAS_SIZE_0) * UvScale) \div ATLAS_SIZE_0
        v == ((ATLAS_SIZE_1 - (m \div ATLAS_SIZE_0)) * UvScale) \div ATLAS_SIZE_1
    IN  <<u + UvInset, v + UvInset, u + U_INCREMENT - UvInset, v + V_INCREMENT - UvInset>>

to_uv_coords_no_flip(m) ==
    LET u == ((m % ATLAS_SIZE_0) * UvScale) \div ATLAS_SIZE_0
        v == ((m \div ATLAS_SIZE_0) * UvScale) \div ATLAS_SIZE_1
    IN  <<u + UvInset, v + UvInset, u + U_INCREMENT - UvInset, v + V_INCREMENT - UvInset>>

\* Return value: <<u1, v1, u2, v2>>
to_uv_coords(m) ==
    LET u == ((m % ATLAS_SIZE_0) * UvScale) \div ATLAS_SIZE_0
        v == ((ATLAS_SIZE_1 - 1 - (m \div ATLAS_SIZE_0)) * UvScale) \div ATLAS_SIZE_1
    IN  <<u + UvInset, v + UvInset, u + U_INCREMENT - UvInset, v + V_INCREMENT - UvInset>>

\* The inverse mapping of the atlas layout (row 0 is the bottom of the texture):
\* the cell that holds the point (u, v), as a material index.
from_uv_coords(u, v) ==
    LET col == (u * ATLAS_SIZE_0) \div UvScale
        row == (v * ATLAS_SIZE_1) \div UvScale
    IN  from_index((ATLAS_SIZE_1 - 1 - row) * ATLAS_SIZE_0 + col)

center(a, b) == (a + b) \div 2

(***************************************************************************)
(* The atlas machine: one material index, mapped to its UV rectangle and   *)
(* back from the rectangle's centre.                                       *)
(***************************************************************************)
IdleAtlas == material = 0 /\ uv = None /\ decoded = None
IdleIter ==
    /\ range = [start |-> [x |-> 0, y |-> 0], end |-> [x |-> 0, y |-> 0]]
    /\ current = None /\ lastCall = <<"none", 0>> /\ result = None
    /\ yielded = <<>> /\ onlyNext = TRUE

InitAtlas ==
    /\ mode = "atlas"
    /\ material \in 0 .. TEXTURES_COUNT - 1
    /\ uv = None
    /\ decoded = None

ToUvCoords ==
    /\ mode = "atlas"
    /\ uv = None
    /\ uv' = to_uv_coords(material)
    /\ UNCHANGED <<mode, material, decoded, iterVars, meshVars, editorVars>>

FromUvCoords ==
    /\ mode = "atlas"
    /\ uv # None
    /\ decoded = None
    /\ decoded' = from_uv_coords(center(uv[1], uv[3]), center(uv[2], uv[4]))
    /\ UNCHANGED <<mode, material, uv, iterVars, meshVars, editorVars>>

(***************************************************************************)
(* tile_range.rs: TileRange and TileRangeIterator.                         *)
(***************************************************************************)
MpsVec2(x, y) == [x |-> x, y |-> y]
TileRange(s, e) == [start |-> s, end |-> e]

area(r) == (r.end.x - r.start.x + 1) * (r.end.y - r.start.y + 1)

\* into_iter asserts the range is not inverted; the iterator starts at start.
into_iter_ok(r) == r.end.x >= r.start.x /\ r.end.y >= r.start.y
into_iter(r) == [range |-> r, current |-> Some(r.start)]

\* Mutant of next: at the end of a line the row is advanced but x is not reset.
next_no_wrap(it) ==
    IF it.current = None THEN [it |-> it, result |-> None]
    ELSE LET res == it.current[1]
         IN  IF res.x < it.range.end.x
             THEN [it |-> [it EXCEPT !.current = Some(MpsVec2(res.x + 1, res.y))], result |-> Some(res)]
             ELSE IF res.y < it.range.end.y
             THEN [it |-> [it EXCEPT !.current = Some(MpsVec2(res.x, res.y + 1))], result |-> Some(res)]
             ELSE [it |-> [it EXCEPT !.current = None], result |-> Some(res)]

\* next: the iterator after the call, and the value returned.
next(it) ==
    IF it.current = None THEN [it |-> it, result |-> None]
    ELSE LET res == it.current[1]
         IN  IF res.x < it.range.end.x
             THEN [it |-> [it EXCEPT !.current = Some(MpsVec2(res.x + 1, res.y))], result |-> Some(res)]
             ELSE IF res.y < it.range.end.y
             THEN [it |-> [it EXCEPT !.current = Some(MpsVec2(it.range.start.x, res.y + 1))],
                   result |-> Some(res)]
             ELSE [it |-> [it EXCEPT !.current = None], result |-> Some(res)]

\* Mutant of nth: the skipped lines are compared with >= instead of >.
nth_skip_off_by_one(it, n0) ==
    IF it.current = None THEN [it |-> it, result |-> None]
    ELSE
    LET cur0 == it.current[1]
        remaining_on_first_line == it.range.end.x - cur0.x + 1
        wraps == n0 >= remaining_on_first_line
    IN  IF wraps /\ ~(cur0.y < it.range.end.y)
        THEN [it |-> [it EXCEPT !.current = None], result |-> None]
        ELSE
        LET cur1 == IF wraps THEN MpsVec2(it.range.start.x, cur0.y + 1) ELSE cur0
            n1 == IF wraps THEN n0 - remaining_on_first_line ELSE n0
        IN  IF n1 > 0
            THEN LET per_line == it.range.end.x - it.range.start.x + 1
                     remaining_full_lines == it.range.end.y - cur1.y
                     skipped_lines == n1 \div per_line
                     n2 == n1 % per_line
                 IN  IF skipped_lines >= remaining_full_lines
                     THEN [it |-> [it EXCEPT !.current = None], result |-> None]
                     ELSE next([it EXCEPT !.current =
                                   Some(MpsVec2(cur1.x + n2, cur1.y + skipped_lines))])
            ELSE next([it EXCEPT !.current = Some(cur1)])

\* nth: the iterator after the call, and the value returned.
nth(it, n0) ==
    IF it.current = None THEN [it |-> it, result |-> None]
    ELSE
    LET cur0 == it.current[1]
        remaining_on_first_line == it.range.end.x - cur0.x + 1
        wraps == n0 >= remaining_on_first_line
    IN  IF wraps /\ ~(cur0.y < it.range.end.y)
        THEN [it |-> [it EXCEPT !.current = None], result |-> None]
        ELSE
        LET cur1 == IF wraps THEN MpsVec2(it.range.start.x, cur0.y + 1) ELSE cur0
            n1 == IF wraps THEN n0 - remaining_on_first_line ELSE n0
        IN  IF n1 > 0
            THEN LET per_line == it.range.end.x - it.range.start.x + 1
                     remaining_full_lines == it.range.end.y - cur1.y
                     skipped_lines == n1 \div per_line
                     n2 == n1 % per_line
                 IN  IF skipped_lines > remaining_full_lines
                     THEN [it |-> [it EXCEPT !.current = None], result |-> None]
                     ELSE next([it EXCEPT !.current =
                                   Some(MpsVec2(cur1.x + n2, cur1.y + skipped_lines))])
            ELSE next([it EXCEPT !.current = Some(cur1)])

\* ExactSizeIterator::len: the coordinates still to come.
len(it) ==
    IF it.current = None THEN 0
    ELSE (it.range.end.x - it.current[1].x + 1)
         + (it.range.end.x - it.range.start.x + 1) * (it.range.end.y - it.current[1].y)

(***************************************************************************)
(* The iterator machine: one TileRangeIterator, driven by into_iter, next  *)
(* and nth calls.                                                          *)
(***************************************************************************)
Coords == {MpsVec2(x, y) : x \in 0 .. MaxCoord, y \in 0 .. MaxCoord}
Ranges == {TileRange(s, e) : s \in Coords, e \in Coords}

iterator == [range |-> range, current |-> current]

InitIter ==
    /\ mode = "iter"
    /\ range \in {r \in Ranges : into_iter_ok(r)}
    /\ current = into_iter(range).current
    /\ lastCall = <<"into_iter", 0>>
    /\ result = None
    /\ yielded = <<>>
    /\ onlyNext = TRUE

IntoIter ==
    /\ mode = "iter"
    /\ into_iter_ok(range)
    /\ current' = into_iter(range).current
    /\ lastCall' = <<"into_iter", 0>>
    /\ result' = None
    /\ yielded' = <<>>
    /\ onlyNext' = TRUE
    /\ UNCHANGED <<mode, range, atlasVars, meshVars, editorVars>>

CallNext ==
    /\ mode = "iter"
    /\ LET r == next(iterator)
       IN  /\ current' = r.it.current
           /\ result' = r.result
           /\ yielded' = IF onlyNext /\ r.result # None
                         THEN Append(yielded, r.result[1]) ELSE yielded
    /\ lastCall' = <<"next", 0>>
    /\ UNCHANGED <<mode, range, onlyNext, atlasVars, meshVars, editorVars>>

CallNth ==
    /\ mode = "iter"
    /\ \E n \in 0 .. MaxN :
         LET r == nth(iterator, n)
         IN  /\ current' = r.it.current
             /\ result' = r.result
             /\ lastCall' = <<"nth", n>>
    /\ yielded' = <<>>
    /\ onlyNext' = FALSE
    /\ UNCHANGED <<mode, range, atlasVars, meshVars, editorVars>>

(***************************************************************************)
(* schema.rs: TileHeight, Connection, TileData.                            *)
(* A height is [ramp, dir, pos, neg]; a flat height h keeps h in both pos  *)
(* and neg and has dir "Flat".                                             *)
(***************************************************************************)
Flat(h) == [ramp |-> FALSE, dir |-> "Flat", pos |-> h, neg |-> h]
Ramp(d, p, n) == [ramp |-> TRUE, dir |-> d, pos |-> p, neg |-> n]

TileHeight_default == Flat(0)

center_height(h) == IF h.ramp THEN (h.pos - h.neg) \div 2 + h.neg ELSE h.pos
min_height(h) == IF h.ramp THEN Min(h.pos, h.neg) ELSE h.pos
max_height(h) == IF h.ramp THEN Max(h.pos, h.neg) ELSE h.pos
equals_flat(h, other) == h = Flat(other)

Directions == {"North", "East", "South", "West"}
Passable == "Unconditional(true)"
Blocked == "Unconditional(false)"
LOCKED_CONNECTION == "Conditional(Lock)"
impassible(c) == c = Blocked

ConnectionMap(c) == [d \in Directions |-> c]
WallMaterialMap(stack) == [d \in Directions |-> stack]

TileData(h, conn, mat, walls) ==
    [height |-> h, connections |-> conn, material |-> mat, wall_material |-> walls]

TileData_default ==
    TileData(TileHeight_default, ConnectionMap(Passable), 0, WallMaterialMap(<<0>>))

is_ramp(tile) == tile.height.ramp

\* Grid<TileData>: map[(y, x)], rows and columns counted from 0.
At(m, y, x) == m.tiles[<<y, x>>]

(***************************************************************************)
(* mesh.rs: State, the mesh accumulator.  faces is bookkeeping of the      *)
(* model: for every face pushed, which builder pushed it, for which tile   *)
(* and side, and where its vertices start.                                 *)
(***************************************************************************)
State_new == [positions |-> <<>>, uvs |-> <<>>, indices |-> <<>>, faces |-> <<>>]

\* Mutant of push_quad_indices: the last corner is taken one vertex too far.
push_quad_indices_past_end(st, index_start) ==
    [st EXCEPT !.indices = @ \o <<index_start, index_start + 4, index_start + 1,
                                  index_start, index_start + 2, index_start + 4>>]

push_quad_indices(st, index_start) ==
    [st EXCEPT !.indices = @ \o <<index_start, index_start + 3, index_start + 1,
                                  index_start, index_start + 2, index_start + 3>>]

push_flipped_quad_indices(st, index_start) ==
    [st EXCEPT !.indices = @ \o <<index_start, index_start + 1, index_start + 3,
                                  index_start, index_start + 3, index_start + 2>>]

push_quad_uv_indices(st, rect, index_start) ==
    push_quad_indices(
        [st EXCEPT !.uvs = @ \o << <<rect[1], rect[2]>>, <<rect[3], rect[2]>>,
                                   <<rect[1], rect[4]>>, <<rect[3], rect[4]>> >>],
        index_start)

Face(kind, x, y, dir, seg, start, n) ==
    [kind |-> kind, x |-> x, y |-> y, dir |-> dir, seg |-> seg, start |-> start, n |-> n]

Half == PosScale \div 2

\* Mutant of internal_mesh_top: the y offset is not applied.
internal_mesh_top_no_offset(st, x, y, tile, y_offset) ==
    LET xf == x * PosScale
        yf == y * PosScale
        rect == to_uv_coords(tile.material)
        index_start == Len(st.positions)
        h == tile.height
        pos == h.pos
        neg == h.neg
        dir_v == h.dir = "Vertical"
        corners ==
            IF ~h.ramp
            THEN << <<xf - Half, h.pos, yf - Half>>, <<xf + Half, h.pos, yf - Half>>,
                    <<xf - Half, h.pos, yf + Half>>, <<xf + Half, h.pos, yf + Half>> >>
            ELSE << <<xf - Half, neg, yf - Half>>,
                    <<xf + Half, IF dir_v THEN neg ELSE pos, yf - Half>>,
                    <<xf - Half, IF dir_v THEN pos ELSE neg, yf + Half>>,
                    <<xf + Half, pos, yf + Half>> >>
    IN  push_quad_uv_indices(
            [st EXCEPT !.positions = @ \o corners,
                       !.faces = Append(@, Face("top", x, y, "Top", 0, index_start, 4))],
            rect, index_start)

internal_mesh_top(st, x, y, tile, y_offset) ==
    LET xf == x * PosScale
        yf == y * PosScale
        rect == to_uv_coords(tile.material)
        index_start == Len(st.positions)
        h == tile.height
        height32 == h.pos + y_offset
        pos == h.pos + y_offset
        neg == h.neg + y_offset
        dir_v == h.dir = "Vertical"
        corners ==
            IF ~h.ramp
            THEN << <<xf - Half, height32, yf - Half>>, <<xf + Half, height32, yf - Half>>,
                    <<xf - Half, height32, yf + Half>>, <<xf + Half, height32, yf + Half>> >>
            ELSE << <<xf - Half, neg, yf - Half>>,
                    <<xf + Half, IF dir_v THEN neg ELSE pos, yf - Half>>,
                    <<xf - Half, IF dir_v THEN pos ELSE neg, yf + Half>>,
                    <<xf + Half, pos, yf + Half>> >>
    IN  push_quad_uv_indices(
            [st EXCEPT !.positions = @ \o corners,
                       !.faces = Append(@, Face("top", x, y, "Top", 0, index_start, 4))],
            rect, index_start)


(***************************************************************************)
(* mesh.rs: mesh_wall.                                                     *)
(***************************************************************************)
\* a % b as Rust computes it (the sign of the dividend).
TruncRem(a, b) == IF a >= 0 THEN a % b ELSE -((-a) % b)

\* Mutant of wall_segments: the height is rounded down.
wall_segments_floor(min_h) == IF min_h <= 0 THEN 0 ELSE min_h \div PosScale

\* min_height.ceil() as usize: a negative value saturates to 0.
wall_segments(min_h) == IF min_h <= 0 THEN 0 ELSE (min_h + PosScale - 1) \div PosScale

\* min_height % 1.0, or 1.0 if that is 0.
wall_last_segment(min_h) ==
    IF TruncRem(min_h, PosScale) = 0 THEN PosScale ELSE TruncRem(min_h, PosScale)

\* Mutant of wall_crop_v2: the top segment's texture is not cropped.
wall_crop_v2_none(v2, top, last_segment) == v2

\* v2 of a segment: the topmost one is cropped to its fractional height.
wall_crop_v2(v2, top, last_segment) ==
    IF top THEN v2 - V_INCREMENT + (last_segment * V_INCREMENT) \div PosScale ELSE v2

\* Mutant of wall_material_at: a stack that is too short gives no material.
wall_material_at_no_clamp(materials, i) ==
    IF i < Len(materials) THEN Some(materials[i + 1]) ELSE None

\* Mutant of wall_material_at: a stack that is too short gives its first entry.
wall_material_at_reuse_first(materials, i) ==
    IF i < Len(materials) THEN Some(materials[i + 1])
    ELSE IF Len(materials) > 0 THEN Some(materials[1])
    ELSE None

\* materials.get(i).or_else(|| materials.last())
wall_material_at(materials, i) ==
    IF i < Len(materials) THEN Some(materials[i + 1])
    ELSE IF Len(materials) > 0 THEN Some(materials[Len(materials)])
    ELSE None

\* Mutant of wall_stops_at: the neighbour must be strictly higher to stop the wall.
wall_stops_at_strict(m, x, y, direction, seg_f) ==
    CASE direction = "West" -> x # 0 /\ min_height(At(m, y, x - 1).height) > seg_f
      [] direction = "East" -> x # m.cols - 1 /\ min_height(At(m, y, x + 1).height) > seg_f
      [] direction = "North" -> y # 0 /\ min_height(At(m, y - 1, x).height) > seg_f
      [] direction = "South" -> y # m.rows - 1 /\ min_height(At(m, y + 1, x).height) > seg_f

\* The break at the end of a segment: the neighbour's wall covers what is below.
wall_stops_at(m, x, y, direction, seg_f) ==
    CASE direction = "West" -> x # 0 /\ min_height(At(m, y, x - 1).height) >= seg_f
      [] direction = "East" -> x # m.cols - 1 /\ min_height(At(m, y, x + 1).height) >= seg_f
      [] direction = "North" -> y # 0 /\ min_height(At(m, y - 1, x).height) >= seg_f
      [] direction = "South" -> y # m.rows - 1 /\ min_height(At(m, y + 1, x).height) >= seg_f

\* The triangular cap that closes a ramp's side down to min_height.
wall_cap(st, x, y, tile, direction, index_start) ==
    LET xf == x * PosScale
        yf == y * PosScale
        h == tile.height
        rect == to_uv_coords(tile.wall_material[direction][1])
        u1 == rect[1]
        u2 == rect[3]
        v2 == rect[4]
        min_h == min_height(h)
        max_h == Max(h.pos, h.neg)
        pos_is_max == max_h = h.pos
        y_offset == IF pos_is_max THEN Half ELSE -Half
        high_v == v2 + ((min_h - max_h) * V_INCREMENT) \div PosScale
        ps == CASE direction = "West" ->
                     << <<xf - Half, min_h, yf - Half>>, <<xf - Half, min_h, yf + Half>>,
                        <<xf - Half, max_h, yf + y_offset>> >>
                [] direction = "East" ->
                     << <<xf + Half, min_h, yf - Half>>, <<xf + Half, min_h, yf + Half>>,
                        <<xf + Half, max_h, yf + y_offset>> >>
                [] direction = "North" ->
                     << <<xf - Half, min_h, yf - Half>>, <<xf + Half, min_h, yf - Half>>,
                        <<xf + y_offset, max_h, yf - Half>> >>
                [] direction = "South" ->
                     << <<xf - Half, min_h, yf + Half>>, <<xf + Half, min_h, yf + Half>>,
                        <<xf + y_offset, max_h, yf + Half>> >>
        us == IF direction \in {"West", "South"}
              THEN << <<u1, v2>>, <<u2, v2>>, <<IF pos_is_max THEN u2 ELSE u1, high_v>> >>
              ELSE << <<u2, v2>>, <<u1, v2>>, <<IF pos_is_max THEN u1 ELSE u2, high_v>> >>
        is == IF direction \in {"West", "South"}
              THEN <<index_start, index_start + 1, index_start + 2>>
              ELSE <<index_start, index_start + 2, index_start + 1>>
    IN  [st EXCEPT !.positions = @ \o ps,
                   !.uvs = @ \o us,
                   !.indices = @ \o is,
                   !.faces = Append(@, Face("cap", x, y, direction, 0, index_start, 3))]

\* One rectangular segment, from seg_f up to seg_f + seg_height.
wall_segment(st, x, y, direction, seg, rect, seg_height, index_start) ==
    LET xf == x * PosScale
        yf == y * PosScale
        seg_f == seg * PosScale
        u1 == rect[1]
        v1 == rect[2]
        u2 == rect[3]
        v2 == rect[4]
        ps == CASE direction = "West" ->
                     << <<xf - Half, seg_f + seg_height, yf - Half>>, <<xf - Half, seg_f, yf - Half>>,
                        <<xf - Half, seg_f + seg_height, yf + Half>>, <<xf - Half, seg_f, yf + Half>> >>
                [] direction = "East" ->
                     << <<xf + Half, seg_f + seg_height, yf - Half>>, <<xf + Half, seg_f, yf - Half>>,
                        <<xf + Half, seg_f + seg_height, yf + Half>>, <<xf + Half, seg_f, yf + Half>> >>
                [] direction = "North" ->
                     << <<xf - Half, seg_f, yf - Half>>, <<xf + Half, seg_f, yf - Half>>,
                        <<xf - Half, seg_f + seg_height, yf - Half>>,
                        <<xf + Half, seg_f + seg_height, yf - Half>> >>
                [] direction = "South" ->
                     << <<xf - Half, seg_f, yf + Half>>, <<xf + Half, seg_f, yf + Half>>,
                        <<xf - Half, seg_f + seg_height, yf + Half>>,
                        <<xf + Half, seg_f + seg_height, yf + Half>> >>
        us == CASE direction = "West" -> << <<u1, v1>>, <<u1, v2>>, <<u2, v1>>, <<u2, v2>> >>
                [] direction = "East" -> << <<u2, v1>>, <<u2, v2>>, <<u1, v1>>, <<u1, v2>> >>
                [] direction = "North" -> << <<u2, v2>>, <<u1, v2>>, <<u2, v1>>, <<u1, v1>> >>
                [] direction = "South" -> << <<u1, v2>>, <<u2, v2>>, <<u1, v1>>, <<u2, v1>> >>
        st1 == [st EXCEPT !.positions = @ \o ps,
                          !.uvs = @ \o us,
                          !.faces = Append(@, Face("wall", x, y, direction, seg, index_start, 4))]
    IN  IF direction \in {"West", "South"}
        THEN push_flipped_quad_indices(st1, index_start)
        ELSE push_quad_indices(st1, index_start)

RECURSIVE wall_segments_loop(_, _, _, _, _, _, _, _, _)
\* for seg in (0..segments).rev(): stops at the first missing material (the `?`) and
\* after the segment at which the neighbour takes over (the break).
wall_segments_loop(st, m, x, y, tile, direction, segments, seg, index_start) ==
    IF seg < 0 THEN st
    ELSE
    LET materials == tile.wall_material[direction]
        mat == wall_material_at(materials, segments - 1 - seg)
    IN  IF mat = None THEN st
        ELSE
        LET last_segment == wall_last_segment(min_height(tile.height))
            top == seg = segments - 1
            full == to_uv_coords(mat[1])
            rect == <<full[1], full[2], full[3], wall_crop_v2(full[4], top, last_segment)>>
            seg_height == IF top THEN last_segment ELSE PosScale
        IN  The({IF wall_stops_at(m, x, y, direction, seg * PosScale)
                 THEN st1
                 ELSE wall_segments_loop(st1, m, x, y, tile, direction, segments,
                                         seg - 1, index_start + 4)
                 : st1 \in {wall_segment(st, x, y, direction, seg, rect, seg_height,
                                         index_start)}})

mesh_wall(st, m, x, y, tile, direction) ==
    LET index_start == Len(st.positions)
        materials == tile.wall_material[direction]
        segments == wall_segments(min_height(tile.height))
    IN  IF tile.height.ramp
        THEN IF materials = <<>> THEN st
             ELSE The({wall_segments_loop(capped, m, x, y, tile, direction, segments,
                                          segments - 1, index_start + 3)
                       : capped \in {wall_cap(st, x, y, tile, direction, index_start)}})
        ELSE wall_segments_loop(st, m, x, y, tile, direction, segments, segments - 1,
                                index_start)


(***************************************************************************)
(* mesh.rs: mesh_map, the walls of one tile.                               *)
(***************************************************************************)
has_neighbor(m, x, y, direction) ==
    CASE direction = "West" -> x # 0
      [] direction = "East" -> x # m.cols - 1
      [] direction = "North" -> y # 0
      [] direction = "South" -> y # m.rows - 1

neighbor(m, x, y, direction) ==
    CASE direction = "West" -> At(m, y, x - 1)
      [] direction = "East" -> At(m, y, x + 1)
      [] direction = "North" -> At(m, y - 1, x)
      [] direction = "South" -> At(m, y + 1, x)

\* Mutant of flat_wall_needed: a neighbour of equal height also gets a wall.
flat_wall_needed_or_equal(m, x, y, height, direction) ==
    \/ ~has_neighbor(m, x, y, direction)
    \/ height >= min_height(neighbor(m, x, y, direction).height)

\* Flat tile: x == 0 || height > map[(y, x - 1)].height.min_height(), and so on.
flat_wall_needed(m, x, y, height, direction) ==
    \/ ~has_neighbor(m, x, y, direction)
    \/ height > min_height(neighbor(m, x, y, direction).height)

\* Mutant of ramp_wall_needed: the ramp's direction is not looked at.
ramp_wall_needed_any_axis(m, x, y, tile, direction) ==
    \/ ~has_neighbor(m, x, y, direction)
    \/ center_height(tile.height) > center_height(neighbor(m, x, y, direction).height)

\* Ramp tile: only the sides along the slope, against the neighbour's centre height.
ramp_wall_needed(m, x, y, tile, direction) ==
    LET dir_v == tile.height.dir = "Vertical"
        height == center_height(tile.height)
    IN  /\ IF direction \in {"West", "East"} THEN dir_v ELSE ~dir_v
        /\ \/ ~has_neighbor(m, x, y, direction)
           \/ height > center_height(neighbor(m, x, y, direction).height)

wall_needed(m, x, y, tile, direction) ==
    IF tile.height.ramp
    THEN ramp_wall_needed(m, x, y, tile, direction)
    ELSE flat_wall_needed(m, x, y, tile.height.pos, direction)

\* The order in which mesh_map tries the four sides.
WallOrder == <<"West", "East", "North", "South">>

RECURSIVE mesh_walls(_, _, _, _, _, _)
\* acc is [state, wall_calls]: wall_calls is bookkeeping, the sides mesh_wall was
\* called for.
mesh_walls(acc, m, x, y, tile, k) ==
    IF k > Len(WallOrder) THEN acc
    ELSE LET d == WallOrder[k]
         IN  IF wall_needed(m, x, y, tile, d)
             THEN The({mesh_walls(with_wall, m, x, y, tile, k + 1)
                       : with_wall \in {[state |-> mesh_wall(acc.state, m, x, y, tile, d),
                                         wall_calls |-> acc.wall_calls \cup {<<x, y, d>>}]}})
             ELSE mesh_walls(acc, m, x, y, tile, k + 1)

(***************************************************************************)
(* mesh.rs: mesh_map, the blocks of one tile.                              *)
(***************************************************************************)
BLOCK_SIZE == PosScale \div 8
BLOCK_SIZE_2 == BLOCK_SIZE \div 2

\* Mutant of add_block: the block is put at the centre of the tile.
add_block_at_centre(tile, x, y, side, width, depth, bx, bz) ==
    [kind |-> "block", x |-> x, y |-> y, side |-> side,
     size |-> <<width, BLOCK_SIZE, depth>>,
     translation |-> <<x * PosScale, center_height(tile.height) + BLOCK_SIZE_2, y * PosScale>>]

add_block(tile, x, y, side, width, depth, bx, bz) ==
    [kind |-> "block", x |-> x, y |-> y, side |-> side,
     size |-> <<width, BLOCK_SIZE, depth>>,
     translation |-> <<bx, center_height(tile.height) + BLOCK_SIZE_2, bz>>]

tile_blocks(m, x, y, tile) ==
    LET xf == x * PosScale
        yf == y * PosScale
        ch == center_height(tile.height)
        west ==
            IF x > 0 /\ impassible(tile.connections["West"]) /\ ~is_ramp(tile)
                     /\ ~is_ramp(At(m, y, x - 1))
            THEN LET nh == center_height(At(m, y, x - 1).height)
                 IN  IF ch > nh
                     THEN <<add_block(tile, x, y, "West", BLOCK_SIZE, PosScale,
                                      xf - Half + BLOCK_SIZE_2, yf)>>
                     ELSE IF ch = nh
                     THEN <<add_block(tile, x, y, "West", BLOCK_SIZE, PosScale, xf - Half, yf)>>
                     ELSE <<>>
            ELSE <<>>
        east ==
            IF x < m.cols - 1 /\ impassible(tile.connections["East"]) /\ ~is_ramp(tile)
                     /\ ch > center_height(At(m, y, x + 1).height)
            THEN <<add_block(tile, x, y, "East", BLOCK_SIZE, PosScale,
                             xf + Half - BLOCK_SIZE_2, yf)>>
            ELSE <<>>
        north ==
            IF y > 0 /\ impassible(tile.connections["North"]) /\ ~is_ramp(tile)
                     /\ ~is_ramp(At(m, y - 1, x))
            THEN LET nh == center_height(At(m, y - 1, x).height)
                 IN  IF ch > nh
                     THEN <<add_block(tile, x, y, "North", PosScale, BLOCK_SIZE,
                                      xf, yf - Half + BLOCK_SIZE_2)>>
                     ELSE IF ch = nh
                     THEN <<add_block(tile, x, y, "North", PosScale, BLOCK_SIZE, xf, yf - Half)>>
                     ELSE <<>>
            ELSE <<>>
        south ==
            IF y < m.rows - 1 /\ impassible(tile.connections["South"]) /\ ~is_ramp(tile)
                     /\ ch > center_height(At(m, y + 1, x).height)
            THEN <<add_block(tile, x, y, "South", PosScale, BLOCK_SIZE,
                             xf, yf + Half - BLOCK_SIZE_2)>>
            ELSE <<>>
    IN  west \o east \o north \o south


(***************************************************************************)
(* mesh.rs: mesh_map, the trims of one tile.                               *)
(*                                                                         *)
(* Trim numbers are in fine units, Fine per position unit, so that         *)
(* v * TRIM_SIZE_2 is the integer v * SinScale.  The trigonometry is kept  *)
(* as far as the claims need it: sin(atan2(d, 1) / -2) is a table over the *)
(* slopes d of the model's ramps; an angle atan2(d, 1) is recorded as its  *)
(* slope d, a length sqrt(d^2 + 1) + e as Hypot(e, 1, d), and a            *)
(* coordinate base + coef * cos(angle) (or sin) as a Term.                 *)
(***************************************************************************)
TRIM_SIZE == BLOCK_SIZE \div 2
TRIM_SIZE_2 == TRIM_SIZE \div 2
SinScale == 1000 * 1000
Fine == SinScale \div TRIM_SIZE_2

\* sin(atan2(d, 1) / -2) * SinScale, rounded, for a slope d in position units.
sin_half_neg(d) ==
    CASE d = -2 * PosScale -> 525731
      [] d = -PosScale -> 382683
      [] d = 0 -> 0
      [] d = PosScale -> -382683
      [] d = 2 * PosScale -> -525731

Term(base, coef, times) == [base |-> base, coef |-> coef, times |-> times]
Plain(c) == Term(c, 0, "1")
\* A length plus + hyp * sqrt(slope^2 + 1).
Hypot(plus, hyp, slope) == [plus |-> plus, hyp |-> hyp, slope |-> slope]
Length(c) == Hypot(c, 0, 0)

add_trim(tile, x, y, side, width, depth, tx, y_offset, tz, x_angle, z_angle, offset, extension) ==
    [kind |-> "trim", x |-> x, y |-> y, side |-> side,
     size |-> <<width, Length(TRIM_SIZE * Fine), depth>>,
     translation |-> <<tx, [y_offset EXCEPT !.base = @ + center_height(tile.height) * Fine], tz>>,
     rotation |-> [x_angle |-> x_angle, z_angle |-> z_angle],
     offset |-> offset, extension |-> extension]

\* What a ramp neighbour along the edge adds to a flat tile's trim: <<offset, extension>>.
flat_trim_ramp_term(nb, height) ==
    IF nb.height.ramp /\ nb.height.neg < height
    THEN LET v == sin_half_neg(nb.height.neg - nb.height.pos)
         IN  <<v, 2 * Abs(v)>>
    ELSE <<0, 0>>

\* What a diagonal neighbour of identical height adds: <<offset, extension>>.
flat_trim_same_term(cond) ==
    IF cond THEN <<TRIM_SIZE_2 * Fine, TRIM_SIZE * Fine>> ELSE <<0, 0>>

\* The two ramp checks of a flat tile's trim: the neighbour before the tile along the
\* edge (north or west) and the one after it (south or east).
flat_trim_before_after(has_before, before, has_after, after, height) ==
    LET b == IF has_before THEN flat_trim_ramp_term(before, height) ELSE <<0, 0>>
        a == IF has_after THEN flat_trim_ramp_term(after, height) ELSE <<0, 0>>
    IN  <<b[1] + a[1], b[2] + a[2]>>

\* The extension of a ramp tile's trim: one v for each neighbour along the edge that
\* is flat at the ramp's higher elevation.
ramp_trim_extension(has_before, before, has_after, after, h) ==
    LET v == 2 * Abs(sin_half_neg(h.neg - h.pos))
        max_h == Max(h.pos, h.neg)
    IN  (IF has_before /\ equals_flat(before.height, max_h) THEN v ELSE 0)
        + (IF has_after /\ equals_flat(after.height, max_h) THEN v ELSE 0)

\* x_axis_trim!(non_ramp_x_cond, x_check_col, x_coord): the trim of a west or east edge.
x_axis_trim(m, x, y, tile, side) ==
    LET xf == x * PosScale
        yf == y * PosScale
        non_ramp_x_cond == IF side = "West" THEN x > 0 ELSE x < m.cols - 1
        x_check_col == IF side = "West" THEN x - 1 ELSE x + 1
        x_coord == IF side = "West" THEN xf - Half + TRIM_SIZE_2 ELSE xf + Half - TRIM_SIZE_2
        h == tile.height
        has_before == y > 0
        has_after == y < m.rows - 1
        before == IF has_before THEN At(m, y - 1, x) ELSE tile
        after == IF has_after THEN At(m, y + 1, x) ELSE tile
    IN  IF ~h.ramp
        THEN LET r == flat_trim_before_after(has_before, before, has_after, after, h.pos)
                 s1 == flat_trim_same_term(non_ramp_x_cond /\ y > 0
                                           /\ At(m, y - 1, x_check_col).height = h)
                 s2 == flat_trim_same_term(non_ramp_x_cond /\ y < m.rows - 1
                                           /\ At(m, y + 1, x_check_col).height = h)
                 offset == r[1] + s1[1] + s2[1]
                 extension == r[2] + s1[2] + s2[2]
             IN  add_trim(tile, x, y, side,
                          Length(TRIM_SIZE * Fine), Length(PosScale * Fine + extension),
                          Plain(x_coord * Fine), Plain(TRIM_SIZE_2 * Fine),
                          Plain(yf * Fine - offset), 0, 0, offset, extension)
        ELSE LET extension == ramp_trim_extension(has_before, before, has_after, after, h)
                 slope == h.neg - h.pos
             IN  add_trim(tile, x, y, side,
                          Length(TRIM_SIZE * Fine), Hypot(extension, 1, h.pos - h.neg),
                          Plain(x_coord * Fine),
                          Term(0, TRIM_SIZE_2 * Fine + extension \div 2, "cos"),
                          Term(yf * Fine, TRIM_SIZE_2 * Fine - extension \div 2, "sin"),
                          slope, 0, 0, extension)

\* z_axis_trim!(z_coord): the trim of a north or south edge.
z_axis_trim(m, x, y, tile, side) ==
    LET xf == x * PosScale
        yf == y * PosScale
        z_coord == IF side = "North" THEN yf - Half + TRIM_SIZE_2 ELSE yf + Half - TRIM_SIZE_2
        h == tile.height
        has_before == x > 0
        has_after == x < m.cols - 1
        before == IF has_before THEN At(m, y, x - 1) ELSE tile
        after == IF has_after THEN At(m, y, x + 1) ELSE tile
    IN  IF ~h.ramp
        THEN LET r == flat_trim_before_after(has_before, before, has_after, after, h.pos)
                 offset == r[1]
                 extension == r[2]
             IN  add_trim(tile, x, y, side,
                          Length(PosScale * Fine + extension), Length(TRIM_SIZE * Fine),
                          Plain(xf * Fine - offset), Plain(TRIM_SIZE_2 * Fine),
                          Plain(z_coord * Fine), 0, 0, offset, extension)
        ELSE LET extension == ramp_trim_extension(has_before, before, has_after, after, h)
                 slope == h.neg - h.pos
             IN  add_trim(tile, x, y, side,
                          Hypot(extension, 1, h.pos - h.neg), Length(TRIM_SIZE * Fine),
                          Term(xf * Fine, TRIM_SIZE_2 * Fine + extension \div 2, "cos"),
                          Term(0, TRIM_SIZE_2 * Fine - extension \div 2, "sin"),
                          Plain(z_coord * Fine), 0, slope, 0, extension)

\* Mutant of trim_needed: only the map boundary is an exposed edge.
trim_needed_at_boundary(m, x, y, side) == ~has_neighbor(m, x, y, side)

\* An edge is exposed at the map boundary and beside a default-height tile.
trim_needed(m, x, y, side) ==
    \/ ~has_neighbor(m, x, y, side)
    \/ neighbor(m, x, y, side).height = TileHeight_default

tile_trims(m, x, y, tile) ==
    (IF trim_needed(m, x, y, "West") THEN <<x_axis_trim(m, x, y, tile, "West")>> ELSE <<>>)
    \o (IF trim_needed(m, x, y, "East") THEN <<x_axis_trim(m, x, y, tile, "East")>> ELSE <<>>)
    \o (IF trim_needed(m, x, y, "North") THEN <<z_axis_trim(m, x, y, tile, "North")>> ELSE <<>>)
    \o (IF trim_needed(m, x, y, "South") THEN <<z_axis_trim(m, x, y, tile, "South")>> ELSE <<>>)


(***************************************************************************)
(* mesh.rs: mesh_map, the key gates of one tile, and the floor.            *)
(***************************************************************************)
\* 0.4375 in position units.
GateInset == (7 * PosScale) \div 16

key_gate(x, y, side, position, rotation) ==
    [x |-> x, y |-> y, side |-> side, translation |-> position, rotation |-> rotation]

\* Mutant of tile_key_gates: the neighbour's facing connection is not looked at.
tile_key_gates_own_side(m, x, y, tile) ==
    (IF x > 0 /\ tile.connections["West"] = LOCKED_CONNECTION
     THEN <<key_gate(x, y, "West", <<x * PosScale - Half, center_height(tile.height), y * PosScale>>,
                     "FRAC_PI_2")>>
     ELSE <<>>)
    \o (IF y > 0 /\ tile.connections["North"] = LOCKED_CONNECTION
        THEN <<key_gate(x, y, "North", <<x * PosScale, center_height(tile.height), y * PosScale - Half>>,
                        "0.0")>>
        ELSE <<>>)

tile_key_gates(m, x, y, tile) ==
    LET xf == x * PosScale
        yf == y * PosScale
        height == center_height(tile.height)
        west ==
            IF x > 0 /\ tile.connections["West"] = LOCKED_CONNECTION
                     /\ At(m, y, x - 1).connections["East"] = LOCKED_CONNECTION
            THEN LET nh == center_height(At(m, y, x - 1).height)
                 IN  <<key_gate(x, y, "West",
                         IF height > nh THEN <<xf - GateInset, height, yf>>
                         ELSE IF height < nh THEN <<xf - PosScale + GateInset, nh, yf>>
                         ELSE <<xf - Half, height, yf>>,
                         IF height < nh THEN "-FRAC_PI_2" ELSE "FRAC_PI_2")>>
            ELSE <<>>
        north ==
            IF y > 0 /\ tile.connections["North"] = LOCKED_CONNECTION
                     /\ At(m, y - 1, x).connections["South"] = LOCKED_CONNECTION
            THEN LET nh == center_height(At(m, y - 1, x).height)
                 IN  <<key_gate(x, y, "North",
                         IF height > nh THEN <<xf, height, yf - GateInset>>
                         ELSE IF height < nh THEN <<xf, nh, yf - PosScale + GateInset>>
                         ELSE <<xf, height, yf - Half>>,
                         IF height < nh THEN "PI" ELSE "0.0")>>
            ELSE <<>>
    IN  west \o north

\* The floor overlay: one quad of the size of the map, textured once per tile.
floor_mesh(m) ==
    LET x2 == m.cols * PosScale - Half
        y2 == m.rows * PosScale - Half
    IN  push_quad_uv_indices(
            [State_new EXCEPT !.positions = << <<-Half, 0, -Half>>, <<x2, 0, -Half>>,
                                               <<-Half, 0, y2>>, <<x2, 0, y2>> >>],
            <<0, 0, m.cols * UvScale, m.rows * UvScale>>, 0)

(***************************************************************************)
(* mesh.rs: mesh_map and mesh_top_highlights.                              *)
(***************************************************************************)
\* Mutant of tile_is_void: no tile is skipped.
tile_is_void_never(tile) == FALSE

\* Mutant of tile_is_void: every flat tile is skipped.
tile_is_void_flat(tile) == ~tile.height.ramp

\* if tile.height == TileHeight::default() { continue; }
tile_is_void(tile) == tile.height = TileHeight_default

\* The body of mesh_map's loop for the tile at (x, y).
mesh_tile(acc, m, x, y) ==
    LET tile == At(m, y, x)
    IN  IF tile_is_void(tile) THEN acc
        ELSE The({[state |-> w.state,
                   wall_calls |-> w.wall_calls,
                   block_children |-> acc.block_children \o tile_blocks(m, x, y, tile)
                                         \o tile_trims(m, x, y, tile),
                   key_gates |-> acc.key_gates \o tile_key_gates(m, x, y, tile)]
                  : w \in {mesh_walls(top, m, x, y, tile, 1)
                           : top \in {[state |-> internal_mesh_top(acc.state, x, y, tile, 0),
                                       wall_calls |-> acc.wall_calls]}}})

RECURSIVE mesh_map_loop(_, _, _)
\* for ((y, x), tile) in map.indexed_iter(): row-major, k = y * cols + x.
mesh_map_loop(acc, m, k) ==
    IF k >= m.rows * m.cols THEN acc
    ELSE The({mesh_map_loop(done, m, k + 1)
              : done \in {mesh_tile(acc, m, k % m.cols, k \div m.cols)}})

\* The bundle mesh_map returns: the atlas mesh, tagged MapMeshMarker, with the blocks
\* and trims, the key gates and the floor as children.
mesh_map(m) ==
    The({[mesh |-> acc.state,
          marker |-> "MapMeshMarker",
          block_children |-> acc.block_children,
          key_gates |-> acc.key_gates,
          floor |-> floor_mesh(m),
          wall_calls |-> acc.wall_calls]
         : acc \in {mesh_map_loop([state |-> State_new, wall_calls |-> {},
                                   block_children |-> <<>>, key_gates |-> <<>>], m, 0)}})

\* 0.01 in position units.
HighlightOffset == PosScale \div 100

RECURSIVE mesh_top_highlights_loop(_, _, _, _)
\* k counts the tiles of the two nested loops; an inverted range has none.
mesh_top_highlights_loop(st, m, it, k) ==
    LET w == Max(0, it.end.x - it.start.x + 1)
        h == Max(0, it.end.y - it.start.y + 1)
    IN  IF k >= w * h
        THEN st
        ELSE LET x == it.start.x + (k % w)
                 y == it.start.y + (k \div w)
             IN  The({mesh_top_highlights_loop(done, m, it, k + 1)
                      : done \in {internal_mesh_top(st, x, y, At(m, y, x),
                                                    HighlightOffset)}})

\* for y in start.y..=end.y { for x in start.x..=end.x { internal_mesh_top(.., 0.01) } }
mesh_top_highlights(m, tile_range) ==
    [mesh |-> mesh_top_highlights_loop(State_new, m, tile_range, 0)]


(***************************************************************************)
(* The mesh machines.  Both start from a map that was loaded.  In the mesh *)
(* machine the map is remeshed (viewport.rs, on_remesh_map); in the        *)
(* highlight machine tiles are also selected (on_select_for_editing),      *)
(* which remeshes the map and meshes the selection's highlight.            *)
(***************************************************************************)
H(c) == (c * PosScale) \div 100

\* The heights the maps are built from: void, below the floor, a whole and a
\* fractional height, and the four ramps between 1.0 and 2.0.
Heights ==
    {Flat(0), Flat(H(-100)), Flat(H(200)), Flat(H(260)),
     Ramp("Vertical", H(200), H(100)), Ramp("Vertical", H(100), H(200)),
     Ramp("Horizontal", H(200), H(100)), Ramp("Horizontal", H(100), H(200))}

\* The heights of the highlight machine's maps.
HighlightHeights ==
    {Flat(0), Flat(H(260)), Ramp("Vertical", H(200), H(100)),
     Ramp("Horizontal", H(100), H(200))}

\* The stack of n wall materials 5, 22, 39, ...
StackOf(n) == [i \in 1 .. n |-> 5 + 17 * (i - 1)]

TopMaterial == ATLAS_SIZE_0 + 1

Shapes == {s \in (1 .. MaxArea) \X (1 .. MaxArea) : s[1] * s[2] <= MaxArea}

Cells(r, c) == (0 .. r - 1) \X (0 .. c - 1)

\* The map of shape s whose tiles have the heights hs and share the connection value
\* conn and the wall material stack st.
MapOf(s, hs, conn, st) ==
    [rows |-> s[1], cols |-> s[2],
     tiles |-> [p \in Cells(s[1], s[2]) |->
                   TileData(hs[p], ConnectionMap(conn), TopMaterial, WallMaterialMap(st))]]

\* What the tiles of one map share: passable connections with a full stack or with
\* an empty one, or blocked connections with the default stack of one material.
Styles ==
    {<<Passable, StackOf(MaxStack)>>, <<Passable, StackOf(0)>>, <<Blocked, StackOf(1)>>}

\* The TileRanges inside the map, start <= end.
RangesIn(m) ==
    {r \in [start : [x : 0 .. m.cols - 1, y : 0 .. m.rows - 1],
            end : [x : 0 .. m.cols - 1, y : 0 .. m.rows - 1]] : into_iter_ok(r)}

InitMesh ==
    /\ mode = "mesh"
    /\ \E s \in Shapes, style \in Styles :
         \E hs \in [Cells(s[1], s[2]) -> Heights] :
            map = MapOf(s, hs, style[1], style[2])
    /\ mesh = None
    /\ highlight = None

InitHighlight ==
    /\ mode = "highlight"
    /\ \E s \in Shapes :
         \E hs \in [Cells(s[1], s[2]) -> HighlightHeights] :
            map = MapOf(s, hs, Passable, StackOf(1))
    /\ mesh = None
    /\ highlight = None

\* on_remesh_map: the map is meshed anew, and so is the highlight of the selection
\* if there is one.
RemeshMap ==
    /\ mode \in {"mesh", "highlight"}
    /\ mesh' = Some(mesh_map(map))
    /\ highlight' = IF highlight = None THEN None
                    ELSE Some([range |-> highlight[1].range,
                               mesh |-> mesh_top_highlights(map, highlight[1].range).mesh])
    /\ UNCHANGED <<mode, map, atlasVars, iterVars, editorVars>>

\* on_select_for_editing: a range of tiles is selected, which triggers RemeshMap.
SelectForEditing ==
    /\ mode = "highlight"
    /\ \E r \in RangesIn(map) :
         highlight' = Some([range |-> r, mesh |-> mesh_top_highlights(map, r).mesh])
    /\ mesh' = Some(mesh_map(map))
    /\ UNCHANGED <<mode, map, atlasVars, iterVars, editorVars>>

IdleMesh == map = None /\ mesh = None /\ highlight = None
IdleEditor == file = None /\ world = None /\ crashed = None /\ tick = None

SpecMeshInit == InitMesh /\ IdleAtlas /\ IdleIter /\ IdleEditor
SpecMeshNext == RemeshMap
SpecMesh == SpecMeshInit /\ [][SpecMeshNext]_vars

\* The gate machine: maps whose tiles each have their own connection on every side.
\* The heights are void, a flat tile and a ramp; the connections are passable,
\* blocked or locked.
GateHeights == {TileHeight_default, Flat(H(200)), Ramp("Horizontal", H(100), H(200))}

Connections == {Passable, Blocked, LOCKED_CONNECTION}

InitGates ==
    /\ mode = "mesh"
    /\ \E s \in {sh \in Shapes : sh[1] * sh[2] <= MaxGateArea} :
         \E hs \in [Cells(s[1], s[2]) -> GateHeights],
            cs \in [Cells(s[1], s[2]) -> [Directions -> Connections]] :
            map = [rows |-> s[1], cols |-> s[2],
                   tiles |-> [p \in Cells(s[1], s[2]) |->
                                 TileData(hs[p], cs[p], TopMaterial, WallMaterialMap(StackOf(1)))]]
    /\ mesh = None
    /\ highlight = None

SpecGatesInit == InitGates /\ IdleAtlas /\ IdleIter /\ IdleEditor
SpecGatesNext == RemeshMap
SpecGates == SpecGatesInit /\ [][SpecGatesNext]_vars

\* The builder machine: internal_mesh_top and mesh_wall are called one at a time, on
\* any tile and side of the map, on one accumulator.  mesh holds the accumulator and
\* the number of calls made.
BuilderHeights == HighlightHeights \cup {Flat(H(-100))}

InitBuilder ==
    /\ mode = "builder"
    /\ \E s \in {sh \in Shapes : sh[1] * sh[2] <= MaxBuilderArea}, style \in Styles :
         \E hs \in [Cells(s[1], s[2]) -> BuilderHeights] :
            map = MapOf(s, hs, style[1], style[2])
    /\ mesh = Some([mesh |-> State_new, calls |-> 0])
    /\ highlight = None

\* internal_mesh_top(&mut state, x, y, tile, y_offset), as mesh_map and
\* mesh_top_highlights call it.
CallMeshTop ==
    /\ mode = "builder"
    /\ mesh[1].calls < MaxCalls
    /\ \E x \in 0 .. map.cols - 1, y \in 0 .. map.rows - 1, y_offset \in {0, HighlightOffset} :
         mesh' = Some([mesh |-> internal_mesh_top(mesh[1].mesh, x, y, At(map, y, x), y_offset),
                       calls |-> mesh[1].calls + 1])
    /\ UNCHANGED <<mode, map, highlight, atlasVars, iterVars, editorVars>>

\* mesh_wall(&mut state, x, y, tile, direction).
CallMeshWall ==
    /\ mode = "builder"
    /\ mesh[1].calls < MaxCalls
    /\ \E x \in 0 .. map.cols - 1, y \in 0 .. map.rows - 1, direction \in Directions :
         mesh' = Some([mesh |-> mesh_wall(mesh[1].mesh, map, x, y, At(map, y, x), direction),
                       calls |-> mesh[1].calls + 1])
    /\ UNCHANGED <<mode, map, highlight, atlasVars, iterVars, editorVars>>

SpecBuilderInit == InitBuilder /\ IdleAtlas /\ IdleIter /\ IdleEditor
SpecBuilderNext == CallMeshTop \/ CallMeshWall
SpecBuilder == SpecBuilderInit /\ [][SpecBuilderNext]_vars

SpecHighlightInit == InitHighlight /\ IdleAtlas /\ IdleIter /\ IdleEditor
SpecHighlightNext == RemeshMap \/ SelectForEditing
SpecHighlight == SpecHighlightInit /\ [][SpecHighlightNext]_vars

SpecAtlasInit == InitAtlas /\ IdleIter /\ IdleMesh /\ IdleEditor
SpecAtlasNext == ToUvCoords \/ FromUvCoords
SpecAtlas == SpecAtlasInit /\ [][SpecAtlasNext]_vars

SpecIterInit == InitIter /\ IdleAtlas /\ IdleMesh /\ IdleEditor
SpecIterNext == IntoIter \/ CallNext \/ CallNth
SpecIter == SpecIterInit /\ [][SpecIterNext]_vars

(***************************************************************************)
(* f64, as far as the heights of the document need it: sums and            *)
(* differences of values below 8 in magnitude that are multiples of 2^-56. *)
(* A value is [neg, hi, lo]: its magnitude is (hi * 2^28 + lo) * 2^-56,    *)
(* kept in two limbs so that every intermediate fits a 32-bit integer.     *)
(* The result of an operation is the exact result rounded to 53            *)
(* significant bits, ties to even.  Zero has one representation (0.0 and   *)
(* -0.0 compare equal in the code).                                        *)
(***************************************************************************)
\* Seven hexadecimal digits in a limb.
LimbBits == 7 * 4
LimbBase == 2^LimbBits
\* f64::MANTISSA_DIGITS
MantissaDigits == 53

F64(neg, hi, lo) == [neg |-> neg, hi |-> hi, lo |-> lo]
F64_ZERO == F64(FALSE, 0, 0)
\* 0.1 is 0x1.999999999999ap-4, 0.25 is 0x1p-2.
F64_TENTH == F64(FALSE, 26843545, 161061274)
F64_QUARTER == F64(FALSE, LimbBase \div 4, 0)

RECURSIVE BitLen(_)
BitLen(n) == IF n = 0 THEN 0 ELSE 1 + BitLen(n \div 2)

\* The magnitude <<hi, lo>> rounded to MantissaDigits significant bits, ties to even.
f64_round_magnitude(m) ==
    LET drop == BitLen(m[1]) + LimbBits - MantissaDigits
    IN  IF m[1] = 0 \/ drop <= 0 THEN m
        ELSE LET unit == 2^drop
                 rest == m[2] % unit
                 kept == m[2] - rest
                 up == rest * 2 > unit \/ (rest * 2 = unit /\ (kept \div unit) % 2 = 1)
                 lo == IF up THEN kept + unit ELSE kept
             IN  IF lo >= LimbBase THEN <<m[1] + 1, lo - LimbBase>> ELSE <<m[1], lo>>

f64_of_magnitude(neg, m) ==
    LET r == f64_round_magnitude(m)
    IN  IF r = <<0, 0>> THEN F64_ZERO ELSE F64(neg, r[1], r[2])

magnitude_add(a, b) ==
    IF a.lo + b.lo >= LimbBase THEN <<a.hi + b.hi + 1, a.lo + b.lo - LimbBase>>
    ELSE <<a.hi + b.hi, a.lo + b.lo>>

\* a - b for magnitudes with a >= b.
magnitude_sub(a, b) ==
    IF a.lo >= b.lo THEN <<a.hi - b.hi, a.lo - b.lo>>
    ELSE <<a.hi - b.hi - 1, a.lo + LimbBase - b.lo>>

magnitude_less(a, b) == a.hi < b.hi \/ (a.hi = b.hi /\ a.lo < b.lo)

\* a + b
f64_add(a, b) ==
    IF a.neg = b.neg THEN f64_of_magnitude(a.neg, magnitude_add(a, b))
    ELSE IF magnitude_less(a, b) THEN f64_of_magnitude(b.neg, magnitude_sub(b, a))
    ELSE f64_of_magnitude(a.neg, magnitude_sub(a, b))

\* -a
f64_neg(a) == IF a = F64_ZERO THEN a ELSE [a EXCEPT !.neg = ~@]

(***************************************************************************)
(* schema.rs: MapFile, the document.  Of its fields the model keeps the    *)
(* grid and the markers that are tile coordinates.                         *)
(***************************************************************************)
\* TileData::default(), its height an f64.
TileData_default_f64 == [TileData_default EXCEPT !.height = Flat(F64_ZERO)]

Grid(rows, cols, tiles) == [rows |-> rows, cols |-> cols, tiles |-> tiles]

MapFile_default ==
    [starting_tile |-> MpsVec2(0, 0),
     shop_warp_tiles |-> <<MpsVec2(0, 0)>>,
     star_warp_tile |-> MpsVec2(0, 0),
     podium_position |-> MpsVec2(0, 0),
     data |-> Grid(1, 1, [p \in Cells(1, 1) |-> TileData_default_f64])]

map_size(f) == MpsVec2(f.data.cols, f.data.rows)

\* Index<MpsVec2> for MapFile and Index<(usize, usize)> for Grid panic outside the
\* grid; a negative coordinate cast to usize is outside it.
InGrid(g, pos) == pos.x \in 0 .. g.cols - 1 /\ pos.y \in 0 .. g.rows - 1

\* The tiles of a range in the order of its iterator.
RECURSIVE collect(_)
collect(it) ==
    IF it.current = None THEN <<>>
    ELSE <<it.current[1]>> \o collect(next(it).it)

\* Every index a loop over the range makes is inside the grid.
RangeInGrid(g, r) == InGrid(g, r.start) /\ InGrid(g, r.end)

\* MapFile::adjust_height on one height: *height += change, or both ends of a ramp.
adjust_tile_height(h, change) ==
    [h EXCEPT !.pos = f64_add(@, change), !.neg = f64_add(@, change)]

\* MapFile::adjust_height; the range is inside the grid.
adjust_height(f, r, change) ==
    [f EXCEPT !.data.tiles =
        [p \in DOMAIN @ |->
            IF p[1] \in r.start.y .. r.end.y /\ p[2] \in r.start.x .. r.end.x
            THEN [@[p] EXCEPT !.height = adjust_tile_height(@, change)]
            ELSE @[p]]]

\* grid: iter_col, iter_row, insert_col, insert_row, remove_col, remove_row.
iter_col(g, c) == [i \in 1 .. g.rows |-> g.tiles[<<i - 1, c>>]]
iter_row(g, r) == [i \in 1 .. g.cols |-> g.tiles[<<r, i - 1>>]]

insert_col(g, index, data) ==
    Grid(g.rows, g.cols + 1,
         [p \in Cells(g.rows, g.cols + 1) |->
            IF p[2] < index THEN g.tiles[p]
            ELSE IF p[2] = index THEN data[p[1] + 1]
            ELSE g.tiles[<<p[1], p[2] - 1>>]])

insert_row(g, index, data) ==
    Grid(g.rows + 1, g.cols,
         [p \in Cells(g.rows + 1, g.cols) |->
            IF p[1] < index THEN g.tiles[p]
            ELSE IF p[1] = index THEN data[p[2] + 1]
            ELSE g.tiles[<<p[1] - 1, p[2]>>]])

remove_col(g, index) ==
    Grid(g.rows, g.cols - 1,
         [p \in Cells(g.rows, g.cols - 1) |->
            IF p[2] < index THEN g.tiles[p] ELSE g.tiles[<<p[1], p[2] + 1>>]])

remove_row(g, index) ==
    Grid(g.rows - 1, g.cols,
         [p \in Cells(g.rows - 1, g.cols) |->
            IF p[1] < index THEN g.tiles[p] ELSE g.tiles[<<p[1] + 1, p[2]>>]])

(***************************************************************************)
(* sync.rs: MapEdit and ListEdit.  An edit is a record with its kind.      *)
(***************************************************************************)
StartingTile(pos) == [kind |-> "StartingTile", pos |-> pos]
ShopWarpTile(index, edit) == [kind |-> "ShopWarpTile", index |-> index, edit |-> edit]
StarWarpTile(pos) == [kind |-> "StarWarpTile", pos |-> pos]
PodiumPosition(pos) == [kind |-> "PodiumPosition", pos |-> pos]
ExpandMap(side, data) == [kind |-> "ExpandMap", side |-> side, data |-> data]
ShrinkMap(side) == [kind |-> "ShrinkMap", side |-> side]
AdjustHeight(r, change) == [kind |-> "AdjustHeight", range |-> r, change |-> change]
ChangeHeight(r, new) == [kind |-> "ChangeHeight", range |-> r, new |-> new]
ChangeConnection(r, direction, new) ==
    [kind |-> "ChangeConnection", range |-> r, direction |-> direction, new |-> new]
ChangeMaterial(r, location, new) ==
    [kind |-> "ChangeMaterial", range |-> r, location |-> location, new |-> new]

ListEdit_Set(v) == [op |-> "Set", value |-> v]
ListEdit_MoveUp == [op |-> "MoveUp", value |-> None]
ListEdit_MoveDown == [op |-> "MoveDown", value |-> None]
ListEdit_Remove == [op |-> "Remove", value |-> None]
ListEdit_Insert(v) == [op |-> "Insert", value |-> v]

\* Mutant of ListEdit_reverse: Set is undone by itself.
ListEdit_reverse_keeps_set(edit, old_value) ==
    CASE edit.op = "Set" -> edit
      [] edit.op = "MoveUp" -> ListEdit_MoveUp
      [] edit.op = "MoveDown" -> ListEdit_MoveDown
      [] edit.op = "Remove" -> ListEdit_Insert(old_value)
      [] edit.op = "Insert" -> ListEdit_Remove

\* ListEdit::reverse
ListEdit_reverse(edit, old_value) ==
    CASE edit.op = "Set" -> ListEdit_Set(old_value)
      [] edit.op = "MoveUp" -> ListEdit_MoveUp
      [] edit.op = "MoveDown" -> ListEdit_MoveDown
      [] edit.op = "Remove" -> ListEdit_Insert(old_value)
      [] edit.op = "Insert" -> ListEdit_Remove

\* ListEdit::is_self_opposite
is_self_opposite(edit) == edit.op \in {"MoveUp", "MoveDown"}

\* Whether ListEdit::apply at index (counted from 0) panics on vec.
ListEdit_apply_panics(edit, index, vec) ==
    CASE edit.op = "Set" -> index >= Len(vec)
      [] edit.op = "MoveUp" -> index = 0 \/ index >= Len(vec)
      [] edit.op = "MoveDown" -> index + 1 >= Len(vec)
      [] edit.op = "Remove" -> index >= Len(vec)
      [] edit.op = "Insert" -> index > Len(vec)

swap(vec, i, j) == [vec EXCEPT ![i + 1] = vec[j + 1], ![j + 1] = vec[i + 1]]

\* ListEdit::apply
ListEdit_apply(edit, index, vec) ==
    CASE edit.op = "Set" -> [vec EXCEPT ![index + 1] = edit.value]
      [] edit.op = "MoveUp" -> swap(vec, index - 1, index)
      [] edit.op = "MoveDown" -> swap(vec, index, index + 1)
      [] edit.op = "Remove" -> SubSeq(vec, 1, index) \o SubSeq(vec, index + 2, Len(vec))
      [] edit.op = "Insert" ->
            SubSeq(vec, 1, index) \o <<edit.value>> \o SubSeq(vec, index + 1, Len(vec))

\* Index<MaterialLocation> for MaterialMap: None is the top material, Some((side, i))
\* the i-th wall material of a side.
material_at_panics(tile, location) ==
    location # None /\ location[1][2] >= Len(tile.wall_material[location[1][1]])

material_at(tile, location) ==
    IF location = None THEN tile.material
    ELSE tile.wall_material[location[1][1]][location[1][2] + 1]

(***************************************************************************)
(* load_file.rs: LoadedFile, the document with its history and selection.  *)
(***************************************************************************)
LoadedFile_default ==
    [dirty |-> FALSE, file |-> MapFile_default, history |-> <<>>, history_index |-> 0,
     selected_range |-> None]

HistoryItem(forward, back) == [forward |-> forward, back |-> back]

\* The panics of the program.
INDEX_OUT_OF_BOUNDS == "index out of bounds"
ASSERTION_FAILED == "assertion failed"
UNWRAP_ON_NONE == "called unwrap on None"

clamp(v, lo, hi) == IF v < lo THEN lo ELSE IF v > hi THEN hi ELSE v

\* LoadedFile::in_bounds
in_bounds(lf, pos) ==
    LET size == map_size(lf.file)
    IN  MpsVec2(clamp(pos.x, 0, Max(size.x - 1, 0)), clamp(pos.y, 0, Max(size.y - 1, 0)))

\* Mutant of shrink_invalid: every ShrinkMap is let through.
shrink_invalid_never(lf, edit) == FALSE

\* edit_map: a ShrinkMap that would leave no column or no row is refused.
shrink_invalid(lf, edit) ==
    /\ edit.kind = "ShrinkMap"
    /\ \/ edit.side \in {"West", "East"} /\ lf.file.data.cols < 2
       \/ edit.side \in {"North", "South"} /\ lf.file.data.rows < 2

\* The column or row a ShrinkMap removes.
removed_line(g, side) ==
    CASE side = "West" -> iter_col(g, 0)
      [] side = "East" -> iter_col(g, g.cols - 1)
      [] side = "North" -> iter_row(g, 0)
      [] side = "South" -> iter_row(g, g.rows - 1)

\* The values a batch edit replaces, read over zip(range, new): [value, panic].
RECURSIVE reversed_materials(_, _, _, _, _)
reversed_materials(g, positions, location, new, k) ==
    IF k > Len(positions) \/ k > Len(new) THEN [value |-> <<>>, panic |-> None]
    ELSE IF new[k].op \in {"Set", "Remove"}
            /\ (~InGrid(g, positions[k])
                \/ material_at_panics(g.tiles[<<positions[k].y, positions[k].x>>], location))
    THEN [value |-> <<>>, panic |-> Some(INDEX_OUT_OF_BOUNDS)]
    ELSE LET old == IF new[k].op \in {"Set", "Remove"}
                    THEN material_at(g.tiles[<<positions[k].y, positions[k].x>>], location)
                    ELSE None
             rest == reversed_materials(g, positions, location, new, k + 1)
         IN  [value |-> <<ListEdit_reverse(new[k], old)>> \o rest.value, panic |-> rest.panic]

\* Mutant of reversed_expand: the removed tiles are not kept, so that undoing the
\* ShrinkMap brings default tiles back.
reversed_shrink_forgets(lf, side) == ExpandMap(side, None)

\* edit_map: the edit that undoes a ShrinkMap puts the removed column or row back.
reversed_shrink(lf, side) == ExpandMap(side, Some(removed_line(lf.file.data, side)))

\* edit_map: the edit that undoes edit in lf, [value, panic].  The arms of the marker
\* edits other than the starting tile (ShopWarpTile, StarWarpTile, PodiumPosition, as
\* sync_from_gizmos passes them) follow the arm of the starting tile and
\* ListEdit::reverse.
reversed(lf, edit) ==
    LET f == lf.file
        done(e) == [value |-> e, panic |-> None]
        failed(p) == [value |-> None, panic |-> Some(p)]
    IN  CASE edit.kind = "StartingTile" -> done(StartingTile(f.starting_tile))
          [] edit.kind = "ShopWarpTile" ->
                IF edit.edit.op \in {"Set", "Remove"} /\ edit.index >= Len(f.shop_warp_tiles)
                THEN failed(INDEX_OUT_OF_BOUNDS)
                ELSE done(ShopWarpTile(edit.index,
                        ListEdit_reverse(edit.edit,
                            IF edit.edit.op \in {"Set", "Remove"}
                            THEN f.shop_warp_tiles[edit.index + 1] ELSE None)))
          [] edit.kind = "StarWarpTile" -> done(StarWarpTile(f.star_warp_tile))
          [] edit.kind = "PodiumPosition" -> done(PodiumPosition(f.podium_position))
          [] edit.kind = "ExpandMap" -> done(ShrinkMap(edit.side))
          [] edit.kind = "ShrinkMap" ->
                \* cols() - 1 and rows() - 1 are computed in usize, and a grid without
                \* columns or rows has no first one.
                IF (IF edit.side \in {"West", "East"} THEN f.data.cols ELSE f.data.rows) = 0
                THEN failed(INDEX_OUT_OF_BOUNDS)
                ELSE done(reversed_shrink(lf, edit.side))
          [] edit.kind = "AdjustHeight" -> done(AdjustHeight(edit.range, f64_neg(edit.change)))
          [] edit.kind = "ChangeHeight" ->
                IF ~into_iter_ok(edit.range) THEN failed(ASSERTION_FAILED)
                ELSE IF ~RangeInGrid(f.data, edit.range) THEN failed(INDEX_OUT_OF_BOUNDS)
                ELSE LET positions == collect(into_iter(edit.range))
                     IN  done(ChangeHeight(edit.range,
                            [k \in 1 .. Len(positions) |->
                                f.data.tiles[<<positions[k].y, positions[k].x>>].height]))
          [] edit.kind = "ChangeConnection" ->
                IF ~into_iter_ok(edit.range) THEN failed(ASSERTION_FAILED)
                ELSE IF ~RangeInGrid(f.data, edit.range) THEN failed(INDEX_OUT_OF_BOUNDS)
                ELSE LET positions == collect(into_iter(edit.range))
                     IN  done(ChangeConnection(edit.range, edit.direction,
                            [k \in 1 .. Len(positions) |->
                                f.data.tiles[<<positions[k].y, positions[k].x>>]
                                    .connections[edit.direction]]))
          [] edit.kind = "ChangeMaterial" ->
                IF ~into_iter_ok(edit.range) THEN failed(ASSERTION_FAILED)
                ELSE LET old == reversed_materials(f.data, collect(into_iter(edit.range)),
                                                   edit.location, edit.new, 1)
                     IN  IF old.panic # None THEN failed(old.panic[1])
                         ELSE done(ChangeMaterial(edit.range, edit.location, old.value))

\* LoadedFile::adjust_coords
adjust_coords(f, adjust) ==
    LET moved(pos) == MpsVec2(pos.x + adjust.x, pos.y + adjust.y)
    IN  [f EXCEPT !.starting_tile = moved(@),
                  !.shop_warp_tiles = [i \in DOMAIN @ |-> moved(@[i])],
                  !.star_warp_tile = moved(@),
                  !.podium_position = moved(@)]

\* apply_edit, ChangeMaterial: the loop over zip(range, new) from its k-th pair on,
\* [tiles, panic].  A panic leaves the tiles as the loop had them.
RECURSIVE apply_materials(_, _, _, _, _)
apply_materials(g, positions, location, new, k) ==
    IF k > Len(positions) \/ k > Len(new) THEN [tiles |-> g.tiles, panic |-> None]
    ELSE LET p == <<positions[k].y, positions[k].x>>
             edit == new[k]
         IN  IF ~InGrid(g, positions[k]) THEN [tiles |-> g.tiles, panic |-> Some(INDEX_OUT_OF_BOUNDS)]
             ELSE IF edit.op = "Set" /\ location = None
             THEN apply_materials([g EXCEPT !.tiles[p].material = edit.value],
                                  positions, location, new, k + 1)
             ELSE IF location = None THEN [tiles |-> g.tiles, panic |-> Some(UNWRAP_ON_NONE)]
             ELSE IF ListEdit_apply_panics(edit, location[1][2], g.tiles[p].wall_material[location[1][1]])
             THEN [tiles |-> g.tiles, panic |-> Some(INDEX_OUT_OF_BOUNDS)]
             ELSE apply_materials(
                    [g EXCEPT !.tiles[p].wall_material[location[1][1]] =
                        ListEdit_apply(edit, location[1][2], @)],
                    positions, location, new, k + 1)

\* Mutant of sizes_match: the lengths are not compared.
sizes_match_unchecked(r, new) == TRUE

\* apply_edit: assert_eq!(range.area(), new.len())
sizes_match(r, new) == area(r) = Len(new)

\* apply_edit, ExpandMap: the tiles of the new column or row.
expand_data(g, edit) ==
    IF edit.data # None THEN edit.data[1]
    ELSE [i \in 1 .. (IF edit.side \in {"West", "East"} THEN g.rows ELSE g.cols) |->
            TileData_default_f64]

\* apply_edit: the document after the edit, the panic that ended it if one did, and
\* the MapEdited it triggers: [lf, panic, events].  A panic of one of the asserts
\* comes before any tile is written.  The arms of the marker edits other than the
\* starting tile follow the arm of the starting tile and ListEdit::apply.
apply_edit(lf, edit) ==
    LET f == lf.file
        g == f.data
        done(nf) == [lf |-> [lf EXCEPT !.file = nf, !.dirty = TRUE], panic |-> None,
                     events |-> <<edit>>]
        failed(nf, p) == [lf |-> [lf EXCEPT !.file = nf], panic |-> Some(p), events |-> <<>>]
    IN  CASE edit.kind = "StartingTile" -> done([f EXCEPT !.starting_tile = edit.pos])
          [] edit.kind = "ShopWarpTile" ->
                IF ListEdit_apply_panics(edit.edit, edit.index, f.shop_warp_tiles)
                THEN failed(f, INDEX_OUT_OF_BOUNDS)
                ELSE done([f EXCEPT !.shop_warp_tiles = ListEdit_apply(edit.edit, edit.index, @)])
          [] edit.kind = "StarWarpTile" -> done([f EXCEPT !.star_warp_tile = edit.pos])
          [] edit.kind = "PodiumPosition" -> done([f EXCEPT !.podium_position = edit.pos])
          [] edit.kind = "ExpandMap" ->
                LET data == expand_data(g, edit)
                IN  (CASE edit.side = "West" ->
                            done(adjust_coords([f EXCEPT !.data = insert_col(g, 0, data)],
                                               MpsVec2(1, 0)))
                       [] edit.side = "East" -> done([f EXCEPT !.data = insert_col(g, g.cols, data)])
                       [] edit.side = "North" ->
                            done(adjust_coords([f EXCEPT !.data = insert_row(g, 0, data)],
                                               MpsVec2(0, 1)))
                       [] edit.side = "South" -> done([f EXCEPT !.data = insert_row(g, g.rows, data)]))
          [] edit.kind = "ShrinkMap" ->
                (CASE edit.side = "West" ->
                        done(adjust_coords([f EXCEPT !.data = remove_col(g, 0)], MpsVec2(-1, 0)))
                   [] edit.side = "East" -> done([f EXCEPT !.data = remove_col(g, g.cols - 1)])
                   [] edit.side = "North" ->
                        done(adjust_coords([f EXCEPT !.data = remove_row(g, 0)], MpsVec2(0, -1)))
                   [] edit.side = "South" -> done([f EXCEPT !.data = remove_row(g, g.rows - 1)]))
          [] edit.kind = "AdjustHeight" ->
                IF into_iter_ok(edit.range) /\ ~RangeInGrid(g, edit.range)
                THEN failed(f, INDEX_OUT_OF_BOUNDS)
                ELSE done(adjust_height(f, edit.range, edit.change))
          [] edit.kind = "ChangeHeight" ->
                IF ~sizes_match(edit.range, edit.new) THEN failed(f, ASSERTION_FAILED)
                ELSE IF ~into_iter_ok(edit.range) THEN failed(f, ASSERTION_FAILED)
                ELSE IF ~RangeInGrid(g, edit.range) THEN failed(f, INDEX_OUT_OF_BOUNDS)
                ELSE LET positions == collect(into_iter(edit.range))
                         at(p) == CHOOSE k \in 1 .. Len(positions) :
                                     positions[k] = MpsVec2(p[2], p[1])
                     IN  done([f EXCEPT !.data.tiles =
                            [p \in DOMAIN @ |->
                                IF MpsVec2(p[2], p[1]) \in {positions[k] : k \in 1 .. Min(Len(positions), Len(edit.new))}
                                THEN [@[p] EXCEPT !.height = edit.new[at(p)]]
                                ELSE @[p]]])
          [] edit.kind = "ChangeConnection" ->
                IF ~sizes_match(edit.range, edit.new) THEN failed(f, ASSERTION_FAILED)
                ELSE IF ~into_iter_ok(edit.range) THEN failed(f, ASSERTION_FAILED)
                ELSE IF ~RangeInGrid(g, edit.range) THEN failed(f, INDEX_OUT_OF_BOUNDS)
                ELSE LET positions == collect(into_iter(edit.range))
                         at(p) == CHOOSE k \in 1 .. Len(positions) :
                                     positions[k] = MpsVec2(p[2], p[1])
                     IN  done([f EXCEPT !.data.tiles =
                            [p \in DOMAIN @ |->
                                IF MpsVec2(p[2], p[1]) \in {positions[k] : k \in 1 .. Min(Len(positions), Len(edit.new))}
                                THEN [@[p] EXCEPT !.connections[edit.direction] = edit.new[at(p)]]
                                ELSE @[p]]])
          [] edit.kind = "ChangeMaterial" ->
                IF ~sizes_match(edit.range, edit.new) THEN failed(f, ASSERTION_FAILED)
                ELSE IF ~into_iter_ok(edit.range) THEN failed(f, ASSERTION_FAILED)
                ELSE LET r == apply_materials(g, collect(into_iter(edit.range)),
                                              edit.location, edit.new, 1)
                     IN  IF r.panic # None THEN failed([f EXCEPT !.data.tiles = r.tiles], r.panic[1])
                         ELSE done([f EXCEPT !.data.tiles = r.tiles])

\* Mutant of is_noop: every edit is dropped.
is_noop_always(edit, back) == TRUE

\* edit_map: whether the edit is dropped because it equals the edit that undoes it.
is_noop(edit, back) ==
    /\ edit = back
    /\ ~(back.kind = "ChangeMaterial" /\ \A k \in DOMAIN back.new : is_self_opposite(back.new[k]))

\* Mutant of truncate: the items after the index are kept.
truncate_never(vec, new_len) == vec

\* Vec::truncate: self.history.truncate(self.history_index)
truncate(vec, new_len) == SubSeq(vec, 1, Min(new_len, Len(vec)))

\* LoadedFile::edit_map: [lf, panic, events, applied]; applied is what edit_map
\* returns.
edit_map(lf, edit) ==
    IF shrink_invalid(lf, edit)
    THEN [lf |-> lf, panic |-> None, events |-> <<>>, applied |-> FALSE]
    ELSE The({IF back.panic # None
              THEN [lf |-> lf, panic |-> back.panic, events |-> <<>>, applied |-> FALSE]
              ELSE IF is_noop(edit, back.value)
              THEN [lf |-> lf, panic |-> None, events |-> <<>>, applied |-> FALSE]
              ELSE The({[lf |-> r.lf, panic |-> r.panic, events |-> r.events, applied |-> TRUE] :
                        r \in {apply_edit(
                                 [lf EXCEPT !.history =
                                               Append(truncate(@, lf.history_index),
                                                      HistoryItem(edit, back.value)),
                                            !.history_index = @ + 1],
                                 edit)}}) :
              back \in {reversed(lf, edit)}})

\* LoadedFile::undo: [lf, panic, events]
undo(lf) ==
    IF lf.history_index > 0
    THEN apply_edit([lf EXCEPT !.history_index = @ - 1], lf.history[lf.history_index].back)
    ELSE [lf |-> lf, panic |-> None, events |-> <<>>]

\* LoadedFile::redo: [lf, panic, events]
redo(lf) ==
    IF lf.history_index < Len(lf.history)
    THEN The({[lf |-> IF r.panic = None THEN [r.lf EXCEPT !.history_index = @ + 1] ELSE r.lf,
               panic |-> r.panic, events |-> r.events]
              : r \in {apply_edit(lf, lf.history[lf.history_index + 1].forward)}})
    ELSE [lf |-> lf, panic |-> None, events |-> <<>>]

(***************************************************************************)
(* viewport.rs: the entities that follow the document.  world is           *)
(*   map_meshes  the entities with a MapMeshMarker,                        *)
(*   bounds      whether the four BoundsGizmo entities exist,              *)
(*   tiles       the range of the TilesGizmo and its TilesGizmoMesh child, *)
(*               or None,                                                  *)
(*   drag        how far the TilesGizmo is from its old_pos, in quarters.  *)
(* The player, the gold pipe, the podium and the shop hop boxes exist from *)
(* the load of the file on.                                                *)
(***************************************************************************)
\* The document has at most MaxTiles tiles.
MaxTiles == 3
\* The history has at most MaxHistory items.
MaxHistory == 2
\* The tiles gizmo is dragged at most MaxDrag quarters from where it was.
MaxDrag == 1
\* Heights stay within MaxHeight units of 0.
MaxHeight == 1

\* A map mesh entity is known by how many map meshes were spawned after it: the newest
\* is NewestMesh.
NewestMesh == 0
spawn_mesh(old) == {e + 1 : e \in old} \cup {NewestMesh}

\* Mutant of despawn_old: the old meshes stay.
despawn_old_never(meshes, old) == meshes

\* on_remesh_map: every map mesh the query found is despawned.
despawn_old(meshes, old) == meshes \ {e + 1 : e \in old}

\* on_remesh_map: mesh_map for a new entity, mesh_top_highlights (which iterates the
\* range and indexes the grid) for the TilesGizmoMesh if there is one, and the old
\* meshes despawned: [world, panic].
on_remesh_map(lf, w) ==
    IF w.tiles # None /\ ~into_iter_ok(w.tiles[1])
    THEN [world |-> w, panic |-> Some(ASSERTION_FAILED)]
    ELSE IF w.tiles # None /\ ~RangeInGrid(lf.file.data, w.tiles[1])
    THEN [world |-> w, panic |-> Some(INDEX_OUT_OF_BOUNDS)]
    ELSE [world |-> [w EXCEPT !.map_meshes = despawn_old(spawn_mesh(@), @)], panic |-> None]

\* get_tile_gizmo_mesh_offset: the tile it reads.
tile_gizmo_mesh_tile(r) == MpsVec2((r.start.x + r.end.x) \div 2, (r.start.y + r.end.y) \div 2)

\* Whether an edit makes on_map_edited trigger RemeshMap.
triggers_remesh(edit) ==
    edit.kind \in {"ExpandMap", "ShrinkMap", "AdjustHeight", "ChangeHeight",
                   "ChangeConnection", "ChangeMaterial"}

\* on_map_edited: the positions at which it reads the grid (get_height_offset_pos,
\* get_tile_gizmo_mesh_offset) for the edit.
on_map_edited_reads(lf, w, edit) ==
    LET f == lf.file
        player == {f.starting_tile}
        gold_pipe == {f.star_warp_tile}
        shop_hops == {f.shop_warp_tiles[i] : i \in DOMAIN f.shop_warp_tiles}
        gizmo == IF w.tiles = None THEN {} ELSE {tile_gizmo_mesh_tile(w.tiles[1])}
    IN  CASE edit.kind = "StartingTile" -> player
          [] edit.kind = "ShopWarpTile" -> IF edit.edit.op = "Set" THEN {edit.edit.value} ELSE {}
          [] edit.kind = "StarWarpTile" -> gold_pipe
          [] edit.kind = "PodiumPosition" -> {edit.pos, f.podium_position}
          [] edit.kind \in {"ExpandMap", "ShrinkMap"} -> player \cup gold_pipe
          [] edit.kind \in {"AdjustHeight", "ChangeHeight"} ->
                shop_hops \cup player \cup gold_pipe \cup gizmo
          [] OTHER -> {}

\* The commands of a system or an observer are applied when it has returned: the
\* MapEdited events in the order they were triggered, each on_map_edited followed at
\* once by the RemeshMap it triggered.  st is [world, panic, remeshes].
RECURSIVE apply_commands(_, _, _, _)
apply_commands(lf, st, events, k) ==
    IF k > Len(events) \/ st.panic # None THEN st
    ELSE IF \E pos \in on_map_edited_reads(lf, st.world, events[k]) : ~InGrid(lf.file.data, pos)
    THEN [st EXCEPT !.panic = Some(INDEX_OUT_OF_BOUNDS)]
    ELSE IF ~triggers_remesh(events[k]) THEN apply_commands(lf, st, events, k + 1)
    ELSE The({apply_commands(lf,
                  [world |-> r.world, panic |-> r.panic, remeshes |-> st.remeshes + 1],
                  events, k + 1) :
              r \in {on_remesh_map(lf, st.world)}})

\* commands.trigger(RemeshMap) of a system, applied.
trigger_remesh(lf, w) ==
    The({[world |-> r.world, panic |-> r.panic, remeshes |-> 1] :
         r \in {on_remesh_map(lf, w)}})

\* A system that calls edit_map: what it has done so far.  before is the document
\* before the last edit_map that returned true.
Running(lf) == [lf |-> lf, panic |-> None, events |-> <<>>, applied |-> 0, before |-> None]

\* file.edit_map(&mut commands, edit) as the next statement of a system.
then_edit_map(acc, edit) ==
    IF acc.panic # None THEN acc
    ELSE The({[lf |-> r.lf, panic |-> r.panic, events |-> acc.events \o r.events,
               applied |-> IF r.applied THEN acc.applied + 1 ELSE acc.applied,
               before |-> IF r.applied THEN Some(acc.lf.file) ELSE acc.before] :
              r \in {edit_map(acc.lf, edit)}})

\* for _ in 0..n { file.edit_map(&mut commands, edit.clone()); }
RECURSIVE repeat_edit_map(_, _, _)
repeat_edit_map(acc, edit, n) ==
    IF n = 0 THEN acc
    ELSE The({repeat_edit_map(a, edit, n - 1) : a \in {then_edit_map(acc, edit)}})

\* sync_from_gizmos, MapSize: every shop warp tile is brought inside the grid.
RECURSIVE clamp_shop_warp_tiles(_, _)
clamp_shop_warp_tiles(acc, index) ==
    IF acc.panic # None \/ index >= Len(acc.lf.file.shop_warp_tiles) THEN acc
    ELSE The({clamp_shop_warp_tiles(a, index + 1) :
              a \in {then_edit_map(acc,
                        ShopWarpTile(index,
                            ListEdit_Set(in_bounds(acc.lf, acc.lf.file.shop_warp_tiles[index + 1]))))}})

\* sync_from_gizmos, MapSize: after the resizes the markers are brought inside the
\* grid, each by an edit of its own.
clamp_markers(acc) ==
    The({The({The({then_edit_map(c, PodiumPosition(in_bounds(c.lf, c.lf.file.podium_position))) :
                   c \in {then_edit_map(b, StarWarpTile(in_bounds(b.lf, b.lf.file.star_warp_tile)))}}) :
              b \in {clamp_shop_warp_tiles(a, 0)}}) :
         a \in {then_edit_map(acc, StartingTile(in_bounds(acc.lf, acc.lf.file.starting_tile)))}})

\* sync_from_gizmos, MapSize(side): the gizmo was moved by axis tiles.
sync_map_size(lf, side, axis) ==
    LET outward == IF side \in {"West", "North"} THEN axis < 0 ELSE axis > 0
        edit == IF outward THEN ExpandMap(side, None) ELSE ShrinkMap(side)
    IN  The({clamp_markers(a) : a \in {repeat_edit_map(Running(lf), edit, Abs(axis))}})

\* on_select_for_editing, Tile(new_pos): the range of the tiles gizmo.
select_tile(old, new_pos, exclusive) ==
    IF ~exclusive /\ old # None
    THEN LET old_start == old[1].start
         IN  CASE new_pos.x >= old_start.x /\ new_pos.y >= old_start.y ->
                    TileRange(old_start, new_pos)
               [] new_pos.x < old_start.x /\ new_pos.y >= old_start.y ->
                    TileRange(MpsVec2(new_pos.x, old_start.y), MpsVec2(old_start.x, new_pos.y))
               [] new_pos.x >= old_start.x /\ new_pos.y < old_start.y ->
                    TileRange(MpsVec2(old_start.x, new_pos.y), MpsVec2(new_pos.x, old_start.y))
               [] OTHER -> TileRange(new_pos, old_start)
    ELSE TileRange(new_pos, new_pos)

\* A change of height by a number of quarters.
Quarters(n) == IF n = 0 THEN F64_ZERO ELSE F64(n < 0, Abs(n) * F64_QUARTER.hi, 0)

(***************************************************************************)
(* The editor as a state machine: one action is one frame in which one     *)
(* system or observer ran, with its commands applied.  tick is what the    *)
(* frame did:                                                              *)
(*   remeshes    how many times on_remesh_map ran (and so mesh_map),       *)
(*   mesh_edits  how many MapEdited events of the frame trigger RemeshMap, *)
(*   phase       "edited" after an edit_map that returned true, "undone"   *)
(*               after the undo that follows it at once, "redone" after    *)
(*               the redo that follows that, "" otherwise,                 *)
(*   restored    the document this undo or redo is to bring back,          *)
(*   other       the document on the other side of the last edit.          *)
(***************************************************************************)
Tick(st, mesh_edits, trail) ==
    [remeshes |-> st.remeshes, mesh_edits |-> mesh_edits,
     phase |-> trail.phase, restored |-> trail.restored, other |-> trail.other]

NoTrail == [phase |-> "", restored |-> None, other |-> None]

\* The trail of a frame whose system called edit_map.
EditTrail(acc) ==
    IF acc.applied > 0 /\ acc.panic = None
    THEN [phase |-> "edited", restored |-> None, other |-> acc.before]
    ELSE NoTrail

World(map_meshes, bounds, tiles, drag) ==
    [map_meshes |-> map_meshes, bounds |-> bounds, tiles |-> tiles, drag |-> drag]

\* The bounds of the model.
Bounded(lf) ==
    /\ lf.file.data.rows * lf.file.data.cols <= MaxTiles
    /\ Len(lf.history) <= MaxHistory
    /\ \A p \in DOMAIN lf.file.data.tiles :
         /\ magnitude_less(lf.file.data.tiles[p].height.pos, F64(FALSE, MaxHeight * LimbBase, 1))
         /\ Len(lf.file.data.tiles[p].wall_material["East"]) <= MaxStack

MeshEdits(events) == Cardinality({k \in DOMAIN events : triggers_remesh(events[k])})

\* The end of a frame: the commands of the system are applied.
Finish(acc, w, trail) ==
    /\ Bounded(acc.lf)
    /\ \E st \in {apply_commands(acc.lf,
                     [world |-> w, panic |-> acc.panic, remeshes |-> 0],
                     acc.events, 1)} :
         /\ file' = acc.lf
         /\ world' = st.world
         /\ crashed' = st.panic
         /\ tick' = Tick(st, MeshEdits(acc.events),
                         IF st.panic = None THEN trail ELSE NoTrail)
    /\ UNCHANGED <<mode, atlasVars, iterVars, meshVars>>

\* The program runs, and the pointer does not hold the tiles gizmo.
Idle == mode \in {"editor", "edit_map"} /\ crashed = None /\ world.drag = 0

\* The state after startup: new_file, and on_file_load with its RemeshMap.
InitEditor ==
    /\ mode \in {"editor", "edit_map"}
    /\ file = LoadedFile_default
    /\ world = World({NewestMesh}, FALSE, None, 0)
    /\ crashed = None
    /\ tick = Tick([remeshes |-> 1], 0, NoTrail)

\* new_file and on_file_load: the document is the default one, every viewport object
\* and map mesh is despawned, and RemeshMap is triggered.
NewFile ==
    /\ Idle
    /\ file # LoadedFile_default
    /\ \E st \in {trigger_remesh(LoadedFile_default, World({}, FALSE, None, 0))} :
         /\ file' = LoadedFile_default
         /\ world' = st.world
         /\ crashed' = st.panic
         /\ tick' = Tick(st, 0, NoTrail)
    /\ UNCHANGED <<mode, atlasVars, iterVars, meshVars>>

\* The map files on disk: two tiles in a row, the first a default tile, the second a
\* tenth high, blocked to the east and with two wall materials there; and two default
\* tiles in a column with the starting tile on the second.
OnDisk ==
    {[MapFile_default EXCEPT
        !.data = Grid(1, 2,
                      [p \in Cells(1, 2) |->
                          IF p = <<0, 0>> THEN TileData_default_f64
                          ELSE TileData(Flat(F64_TENTH),
                                        [ConnectionMap(Passable) EXCEPT !["East"] = Blocked],
                                        TopMaterial,
                                        [WallMaterialMap(<<0>>) EXCEPT !["East"] = <<TopMaterial, 0>>])])],
     [MapFile_default EXCEPT
        !.starting_tile = MpsVec2(0, 1),
        !.data = Grid(2, 1, [p \in Cells(2, 1) |-> TileData_default_f64])]}

\* handle_load and on_file_load: the document is the one read, the history is empty and
\* nothing is selected; every viewport object and map mesh is despawned, the objects
\* of the markers are spawned where the markers are, and RemeshMap is triggered.
LoadFile ==
    /\ Idle
    /\ \E f \in OnDisk :
         LET lf == [LoadedFile_default EXCEPT !.file = f]
         IN  \E st \in {IF \A pos \in {f.starting_tile, f.star_warp_tile, f.podium_position}
                                        \cup {f.shop_warp_tiles[i] : i \in DOMAIN f.shop_warp_tiles} :
                               InGrid(f.data, pos)
                        THEN trigger_remesh(lf, World({}, FALSE, None, 0))
                        ELSE [world |-> world, panic |-> Some(INDEX_OUT_OF_BOUNDS), remeshes |-> 0]} :
                /\ file' = lf
                /\ world' = st.world
                /\ crashed' = st.panic
                /\ tick' = Tick(st, 0, NoTrail)
    /\ UNCHANGED <<mode, atlasVars, iterVars, meshVars>>

\* on_pointer_click and on_select_for_editing, Tile: a tile of the map is clicked,
\* with or without shift.
TileClick ==
    /\ Idle
    /\ \E new_pos \in [x : 0 .. file.file.data.cols - 1, y : 0 .. file.file.data.rows - 1],
          shift \in BOOLEAN :
         LET exclusive == ~shift \/ world.bounds
             r == select_tile(world.tiles, new_pos, exclusive)
             lf == [file EXCEPT !.selected_range = Some(r)]
         IN  \E st \in {IF InGrid(file.file.data, tile_gizmo_mesh_tile(r))
                        THEN trigger_remesh(lf, World(world.map_meshes, FALSE, Some(r), 0))
                        ELSE [world |-> world, panic |-> Some(INDEX_OUT_OF_BOUNDS),
                              remeshes |-> 0]} :
                /\ file' = lf
                /\ world' = st.world
                /\ crashed' = st.panic
                /\ tick' = Tick(st, 0, NoTrail)
    /\ UNCHANGED <<mode, atlasVars, iterVars, meshVars>>

\* The "Edit map bounds" button and on_select_for_editing, MapSize: the first of the
\* four selections is exclusive, which ends the selection of tiles.
SelectMapBounds ==
    /\ Idle
    /\ ~world.bounds
    /\ file' = [file EXCEPT !.selected_range = None]
    /\ world' = World(world.map_meshes, TRUE, None, 0)
    /\ crashed' = None
    /\ tick' = Tick([remeshes |-> 0], 0, NoTrail)
    /\ UNCHANGED <<mode, atlasVars, iterVars, meshVars>>

\* sync_from_gizmos, MapSize: a bounds gizmo was dragged by one or two tiles.
DragMapSize ==
    /\ Idle
    /\ world.bounds
    /\ \E side \in Directions, axis \in {-2, -1, 1, 2} :
         \E acc \in {sync_map_size(file, side, axis)} :
            Finish(acc, world, EditTrail(acc))

\* The starting tile input of the map settings.
SetStartingTile ==
    /\ Idle
    /\ \E pos \in {MpsVec2(x, 0) : x \in -1 .. file.file.data.cols}
                  \cup {MpsVec2(0, y) : y \in -1 .. file.file.data.rows} :
         \E acc \in {then_edit_map(Running(file), StartingTile(in_bounds(file, pos)))} :
            Finish(acc, world, EditTrail(acc))

\* The height input of the tile settings: the tiles of the selection become flat at
\* the height typed.
SetHeight ==
    /\ Idle
    /\ file.selected_range # None
    /\ \E height \in {F64_TENTH} :
         LET r == file.selected_range[1]
         IN  \E acc \in {then_edit_map(Running(file),
                            ChangeHeight(r, [k \in 1 .. area(r) |-> Flat(height)]))} :
                Finish(acc, world, EditTrail(acc))

\* The connection boxes of the tile settings.
SetConnection ==
    /\ Idle
    /\ file.selected_range # None
    /\ \E direction \in {"East"}, new_type \in {Passable, Blocked} :
         LET r == file.selected_range[1]
         IN  \E acc \in {then_edit_map(Running(file),
                            ChangeConnection(r, direction, [k \in 1 .. area(r) |-> new_type]))} :
                Finish(acc, world, EditTrail(acc))

\* The material edits the tile settings offer for the selection: the picker sets the
\* top material or a segment; a segment moves up unless it is the first, down unless
\* it is the last, is removed unless it is the only one; a segment is added at the
\* end if the stacks of the selection have one length.
OfferedMaterialEdits(lf, r, side) ==
    LET lens == {Len(lf.file.data.tiles[<<p.y, p.x>>].wall_material[side]) :
                    p \in {q \in [x : r.start.x .. r.end.x, y : r.start.y .. r.end.y] : TRUE}}
        min_segments == CHOOSE n \in lens : \A l \in lens : n <= l
    IN  {<<None, ListEdit_Set(TopMaterial)>>}
        \cup {<<Some(<<side, index>>), ListEdit_Set(TopMaterial)>> : index \in 0 .. min_segments - 1}
        \cup {<<Some(<<side, index>>), ListEdit_MoveUp>> : index \in 1 .. min_segments - 1}
        \cup {<<Some(<<side, index>>), ListEdit_MoveDown>> : index \in 0 .. min_segments - 2}
        \cup {<<Some(<<side, index>>), ListEdit_Remove>> :
                index \in IF min_segments <= 1 THEN {} ELSE 0 .. min_segments - 1}
        \cup (IF Cardinality(lens) = 1
              THEN {<<Some(<<side, min_segments>>), ListEdit_Insert(0)>>} ELSE {})

EditMaterial ==
    /\ Idle
    /\ file.selected_range # None
    /\ RangeInGrid(file.file.data, file.selected_range[1])
    /\ LET r == file.selected_range[1]
       IN  \E offer \in OfferedMaterialEdits(file, r, "East") :
              \E acc \in {then_edit_map(Running(file),
                            ChangeMaterial(r, offer[1], [k \in 1 .. area(r) |-> offer[2]]))} :
                 Finish(acc, world, EditTrail(acc))

\* sync_from_gizmos, Tile, while the gizmo is held: the tiles follow the gizmo by a
\* quarter, outside the history, and RemeshMap is triggered.
DragTiles ==
    /\ mode = "editor" /\ crashed = None
    /\ world.tiles # None
    /\ RangeInGrid(file.file.data, world.tiles[1])
    /\ \E delta \in {-1, 1} :
         /\ Abs(world.drag + delta) <= MaxDrag
         /\ LET lf == [file EXCEPT !.file = adjust_height(@, world.tiles[1], Quarters(delta))]
            IN  /\ Bounded(lf)
                /\ \E st \in {trigger_remesh(lf, [world EXCEPT !.drag = @ + delta])} :
                     /\ file' = lf
                     /\ world' = st.world
                     /\ crashed' = st.panic
                     /\ tick' = Tick(st, 0, NoTrail)
    /\ UNCHANGED <<mode, atlasVars, iterVars, meshVars>>

\* sync_from_gizmos, Tile, when the gizmo is let go away from where it was: the tiles
\* are put back and the whole change becomes one AdjustHeight edit.
ReleaseTiles ==
    /\ mode = "editor" /\ crashed = None
    /\ world.tiles # None /\ world.drag # 0
    /\ RangeInGrid(file.file.data, world.tiles[1])
    /\ LET change == Quarters(world.drag)
           lf == [file EXCEPT !.file = adjust_height(@, world.tiles[1], f64_neg(change))]
       IN  \E acc \in {then_edit_map(Running(lf), AdjustHeight(world.tiles[1], change))} :
              Finish(acc, [world EXCEPT !.drag = 0], EditTrail(acc))

\* The Undo menu item and Ctrl+Z.
Undo ==
    /\ Idle
    /\ \E r \in {undo(file)} :
         Finish([lf |-> r.lf, panic |-> r.panic, events |-> r.events], world,
                IF tick.phase = "edited" /\ file.history_index > 0
                THEN [phase |-> "undone", restored |-> tick.other, other |-> Some(file.file)]
                ELSE NoTrail)

\* The Redo menu item and Ctrl+Shift+Z.
Redo ==
    /\ Idle
    /\ \E r \in {redo(file)} :
         Finish([lf |-> r.lf, panic |-> r.panic, events |-> r.events], world,
                IF tick.phase = "undone" /\ file.history_index < Len(file.history)
                THEN [phase |-> "redone", restored |-> tick.other, other |-> None]
                ELSE NoTrail)

\* A caller of edit_map passes a batch edit whose list of values is one short or one
\* long, or has the length of the range.
EditMapBatch ==
    /\ Idle
    /\ mode = "edit_map"
    /\ file.selected_range # None
    /\ LET r == file.selected_range[1]
       IN  \E n \in {area(r) - 1, area(r), area(r) + 1} :
              \E edit \in {ChangeHeight(r, [k \in 1 .. n |-> Flat(F64_TENTH)]),
                           ChangeConnection(r, "East", [k \in 1 .. n |-> Blocked]),
                           ChangeMaterial(r, None, [k \in 1 .. n |-> ListEdit_Set(TopMaterial)]),
                           ChangeMaterial(r, Some(<<"East", 0>>),
                                          [k \in 1 .. n |-> ListEdit_Set(TopMaterial)])} :
                 \E acc \in {then_edit_map(Running(file), edit)} :
                    Finish(acc, world, EditTrail(acc))

SpecEditorInit == InitEditor /\ mode = "editor" /\ IdleAtlas /\ IdleIter /\ IdleMesh
SpecEditorNext ==
    \/ NewFile \/ LoadFile \/ TileClick \/ SelectMapBounds \/ DragMapSize \/ SetStartingTile
    \/ SetHeight \/ SetConnection \/ EditMaterial \/ DragTiles \/ ReleaseTiles
    \/ Undo \/ Redo
SpecEditor == SpecEditorInit /\ [][SpecEditorNext]_vars

SpecEditMapInit == InitEditor /\ mode = "edit_map" /\ IdleAtlas /\ IdleIter /\ IdleMesh
SpecEditMapNext == LoadFile \/ TileClick \/ EditMapBatch \/ Undo \/ Redo
SpecEditMap == SpecEditMapInit /\ [][SpecEditMapNext]_vars

(***************************************************************************)
(* The history machine: edit_map, undo and redo of LoadedFile are called   *)
(* one at a time, in any order, on the default document or on one read     *)
(* from disk.  tick is the last call: its name, the document before it,    *)
(* the edit it was given, what it returned and the MapEdited events it     *)
(* triggered.                                                              *)
(***************************************************************************)
Call(op, before, edit, returned, events) ==
    [op |-> op, before |-> before, edit |-> edit, returned |-> returned, events |-> events]

\* The ranges of one tile of the grid g.
TileRangesOf(g) ==
    {TileRange(MpsVec2(x, y), MpsVec2(x, y)) : x \in 0 .. g.cols - 1, y \in 0 .. g.rows - 1}

\* The edits the callers of edit_map make on the document lf: a marker is moved to a
\* tile of the grid (ui.rs: starting tile input), the grid grows or shrinks by a
\* column or row (sync_from_gizmos), one tile is raised by nothing or by one unit
\* (sync_from_gizmos), its east connection is set (ui.rs: connection combo), or the
\* second segment of its east wall moves up (ui.rs: offered when there is one).
OfferedEdits(lf) ==
    LET g == lf.file.data
    IN  {StartingTile(MpsVec2(x, y)) : x \in 0 .. g.cols - 1, y \in 0 .. g.rows - 1}
        \cup {ExpandMap(side, None) : side \in Directions}
        \cup {ShrinkMap(side) : side \in Directions}
        \cup {AdjustHeight(r, Quarters(q)) : r \in TileRangesOf(g), q \in {0, 4}}
        \cup {ChangeConnection(r, "East", <<c>>) : r \in TileRangesOf(g), c \in {Passable, Blocked}}
        \cup {ChangeMaterial(r, Some(<<"East", 1>>), <<ListEdit_MoveUp>>) :
                r \in {t \in TileRangesOf(g) :
                         Len(g.tiles[<<t.start.y, t.start.x>>].wall_material["East"]) >= 2}}

InitHistory ==
    /\ mode = "history"
    /\ \E f \in OnDisk \cup {MapFile_default} : file = [LoadedFile_default EXCEPT !.file = f]
    /\ world = None
    /\ crashed = None
    /\ tick = Call("", None, None, FALSE, <<>>)

\* file.edit_map(&mut commands, edit)
CallEditMap ==
    /\ mode = "history"
    /\ crashed = None
    /\ \E edit \in OfferedEdits(file) :
         \E r \in {edit_map(file, edit)} :
            /\ Bounded(r.lf)
            /\ file' = r.lf
            /\ crashed' = r.panic
            /\ tick' = Call("edit_map", Some(file), Some(edit), r.applied, r.events)
    /\ UNCHANGED <<mode, world, atlasVars, iterVars, meshVars>>

\* file.undo(&mut commands)
CallUndo ==
    /\ mode = "history"
    /\ crashed = None
    /\ \E r \in {undo(file)} :
         /\ file' = r.lf
         /\ crashed' = r.panic
         /\ tick' = Call("undo", Some(file), None, FALSE, r.events)
    /\ UNCHANGED <<mode, world, atlasVars, iterVars, meshVars>>

\* file.redo(&mut commands)
CallRedo ==
    /\ mode = "history"
    /\ crashed = None
    /\ \E r \in {redo(file)} :
         /\ file' = r.lf
         /\ crashed' = r.panic
         /\ tick' = Call("redo", Some(file), None, FALSE, r.events)
    /\ UNCHANGED <<mode, world, atlasVars, iterVars, meshVars>>

SpecHistoryInit == InitHistory /\ IdleAtlas /\ IdleIter /\ IdleMesh
SpecHistoryNext == CallEditMap \/ CallUndo \/ CallRedo
SpecHistory == SpecHistoryInit /\ [][SpecHistoryNext]_vars

(***************************************************************************)
(* The list machine: a ListEdit is applied to a vector, then the edit that *)
(* ListEdit::reverse makes of it and of the old item is applied at the     *)
(* same index (sync.rs).  tick holds the vector and the last step.         *)
(***************************************************************************)
Items == 0 .. MaxItem

RECURSIVE Vecs(_)
\* The vectors of exactly n items.
Vecs(n) == IF n = 0 THEN {<<>>} ELSE {Append(v, i) : v \in Vecs(n - 1), i \in Items}

ListEdits ==
    {ListEdit_MoveUp, ListEdit_MoveDown, ListEdit_Remove}
        \cup {ListEdit_Set(i) : i \in Items} \cup {ListEdit_Insert(i) : i \in Items}

\* What the list machine holds: the vector, the step made last ("", "apply" or
\* "reverse"), the vector before the last apply, and the index, the edit and the
\* reverse edit of the last apply.
ListState(vec, step, before, index, edit, back) ==
    [vec |-> vec, step |-> step, before |-> before, index |-> index, edit |-> edit, back |-> back]

InitList ==
    /\ mode = "list"
    /\ \E n \in 0 .. MaxVec : \E v \in Vecs(n) : tick = ListState(v, "", None, 0, None, None)
    /\ file = None /\ world = None /\ crashed = None

\* edit.reverse(|| vec[index]) followed by edit.apply(index, &mut vec).  The closure
\* is called, and reads vec[index], for Set and Remove only.
ApplyListEdit ==
    /\ mode = "list" /\ crashed = None
    /\ tick.step # "apply"
    /\ \E edit \in ListEdits, index \in 0 .. MaxVec :
          IF \/ (edit.op \in {"Set", "Remove"} /\ index >= Len(tick.vec))
             \/ ListEdit_apply_panics(edit, index, tick.vec)
          THEN crashed' = Some(INDEX_OUT_OF_BOUNDS) /\ UNCHANGED tick
          ELSE /\ Len(ListEdit_apply(edit, index, tick.vec)) <= MaxVec
               /\ tick' = ListState(ListEdit_apply(edit, index, tick.vec), "apply",
                                    Some(tick.vec), index, Some(edit),
                                    Some(ListEdit_reverse(edit,
                                            IF edit.op \in {"Set", "Remove"}
                                            THEN tick.vec[index + 1] ELSE None)))
               /\ UNCHANGED crashed
    /\ UNCHANGED <<mode, atlasVars, iterVars, meshVars, file, world>>

\* The reverse edit is applied at the index of the edit.
ApplyReverse ==
    /\ mode = "list" /\ crashed = None
    /\ tick.step = "apply"
    /\ IF ListEdit_apply_panics(tick.back[1], tick.index, tick.vec)
       THEN crashed' = Some(INDEX_OUT_OF_BOUNDS) /\ UNCHANGED tick
       ELSE /\ tick' = [tick EXCEPT !.vec = ListEdit_apply(tick.back[1], tick.index, @),
                                    !.step = "reverse"]
            /\ UNCHANGED crashed
    /\ UNCHANGED <<mode, atlasVars, iterVars, meshVars, file, world>>

SpecListInit == InitList /\ IdleAtlas /\ IdleIter /\ IdleMesh
SpecListNext == ApplyListEdit \/ ApplyReverse
SpecList == SpecListInit /\ [][SpecListNext]_vars

(***************************************************************************)
(* The close machine: the systems of ui.rs and load_file.rs that register, *)
(* confirm and run the action that closes the document (new file, open     *)
(* file, window close).  An app is the record [file, world, tick]:         *)
(*   file   the LoadedFile;                                                *)
(*   world  the UiState (pending_close_state), whether the "Are you sure?" *)
(*          popup is open, whether LoadedFile.path is Some, the messages   *)
(*          written and not yet read, the file dialogs that are open and   *)
(*          whether the primary window exists;                             *)
(*   tick   the close actions registered so far (an action is named by its *)
(*          position in requests), the actions run with the dirty flag     *)
(*          they were run at, and the actions that were pending when the   *)
(*          user chose Cancel or Don't Save.                               *)
(* A message whose reader does nothing but report an error (FileSaved and  *)
(* DialogFileSaved with an Err result) is not written.                     *)
(***************************************************************************)
\* PendingCloseState: None, or a state with its BoxedCloseHandler.
PendingUi(action) == Some([state |-> "PendingUi", action |-> action])
PendingUserInput(action) == Some([state |-> "PendingUserInput", action |-> action])
Confirmed(action) == Some([state |-> "Confirmed", action |-> action])

UiState_default ==
    [pending_close_state |-> None, popup |-> FALSE, path |-> FALSE, messages |-> {},
     dialogs |-> {}, window |-> TRUE]

App(f, w, t) == [file |-> f, world |-> w, tick |-> t]

\* Mutant of request_close_file: the action is registered as confirmed.
request_close_file_confirmed(a, kind) ==
    [a EXCEPT !.tick.requests = Append(@, kind),
              !.world.pending_close_state = Confirmed(Len(a.tick.requests) + 1)]

\* UiState::request_close_file with the closure of new_file, of open_file or of
\* close_handler.
request_close_file(a, kind) ==
    [a EXCEPT !.tick.requests = Append(@, kind),
              !.world.pending_close_state = PendingUi(Len(a.tick.requests) + 1)]

\* save_file: with a path the document is written and FileSaved tells the result
\* (written is "ok", or "err" when get_write_data or fs::write fails); without one
\* the "Save as" dialog opens.
save_file(a, written) ==
    IF a.world.path
    THEN IF written = "ok" THEN [a EXCEPT !.world.messages = @ \cup {"FileSaved"}] ELSE a
    ELSE [a EXCEPT !.world.dialogs = @ \cup {"save"}]

\* save_file_as
save_file_as(a) == [a EXCEPT !.world.dialogs = @ \cup {"save"}]

\* The call of a BoxedCloseHandler: the closure of new_file makes the document the
\* default one, that of open_file opens the "Open" dialog, that of close_handler
\* despawns the window.
call_action(a, action) ==
    LET kind == a.tick.requests[action]
        called == [a EXCEPT !.tick.executed =
                                Append(@, [action |-> action, dirty |-> a.file.dirty])]
    IN  CASE kind = "new_file" -> [called EXCEPT !.file = LoadedFile_default, !.world.path = FALSE]
          [] kind = "open_file" -> [called EXCEPT !.world.dialogs = @ \cup {"load"}]
          [] kind = "close_window" -> [called EXCEPT !.world.window = FALSE]

\* draw_imgui, the "File" menu: the item that was clicked, if any.
file_menu(a, item, written) ==
    CASE item = "New" -> request_close_file(a, "new_file")
      [] item = "Open" -> request_close_file(a, "open_file")
      [] item = "Save" -> save_file(a, written)
      [] item = "Save as" -> save_file_as(a)
      [] item = "Quit" -> [a EXCEPT !.world.messages = @ \cup {"WindowCloseRequested"}]
      [] OTHER -> a

\* draw_imgui: a PendingUi action of a dirty document opens the popup.
open_confirmation(a) ==
    LET pending == a.world.pending_close_state
    IN  IF pending # None /\ pending[1].state = "PendingUi" /\ a.file.dirty
        THEN [a EXCEPT !.world.popup = TRUE,
                       !.world.pending_close_state = PendingUserInput(pending[1].action)]
        ELSE a

\* The actions held by the pending close state.
Held(a) ==
    IF a.world.pending_close_state = None THEN {} ELSE {a.world.pending_close_state[1].action}

\* draw_imgui, the body of the "Are you sure?" popup: the button that was clicked, if
\* any.
confirmation_popup(a, button, written) ==
    CASE button = "Cancel" ->
            [a EXCEPT !.world.pending_close_state = None, !.world.popup = FALSE,
                      !.tick.cancelled = @ \cup Held(a)]
      [] button = "Don't Save" ->
            [a EXCEPT !.world.pending_close_state =
                          IF @ # None /\ @[1].state = "PendingUserInput"
                          THEN Confirmed(@[1].action) ELSE None,
                      !.world.popup = FALSE,
                      !.tick.dont_save = @ \cup Held(a)]
      [] button = "Save" -> The({[s EXCEPT !.world.popup = FALSE] : s \in {save_file(a, written)}})
      [] OTHER -> a

\* draw_imgui: the menu, the match on the pending close state, the popup if it is open.
draw_imgui(a, item, button, written) ==
    The({IF opened.world.popup THEN confirmation_popup(opened, button, written) ELSE opened
         : opened \in {open_confirmation(file_menu(a, item, written))}})

\* keyboard_handler: the shortcut that was pressed, if any.
keyboard_handler(a, key, written) ==
    CASE key = "Ctrl+N" -> request_close_file(a, "new_file")
      [] key = "Ctrl+O" -> request_close_file(a, "open_file")
      [] key = "Ctrl+Shift+S" -> save_file_as(a)
      [] key = "Ctrl+S" -> save_file(a, written)
      [] key = "Ctrl+Shift+Z" -> [a EXCEPT !.file = redo(a.file).lf]
      [] key = "Ctrl+Z" -> [a EXCEPT !.file = undo(a.file).lf]
      [] OTHER -> a

\* close_handler: a WindowCloseRequested registers the despawn of the window; a
\* Confirmed action is called, a PendingUi or PendingUserInput one is called if the
\* document is not dirty; mem::take has left None behind.
close_handler(a) ==
    The({IF pending # None /\ (pending[1].state = "Confirmed" \/ ~requested.file.dirty)
         THEN call_action([requested EXCEPT !.world.pending_close_state = None],
                          pending[1].action)
         ELSE requested
         : <<requested, pending>> \in
             {<<r, r.world.pending_close_state>> :
                r \in {IF "WindowCloseRequested" \in a.world.messages
                       THEN request_close_file(
                                [a EXCEPT !.world.messages = @ \ {"WindowCloseRequested"}],
                                "close_window")
                       ELSE a}}})

\* handle_load: the document read from the file replaces the open one, unless it
\* does not parse.
handle_load(a, data) ==
    IF data = None THEN a
    ELSE [a EXCEPT !.file = [LoadedFile_default EXCEPT !.file = data[1]], !.world.path = TRUE]

\* file_state_handler: DialogFileLoaded, then FileSaved, then DialogFileSaved.
file_state_handler(a, data, written) ==
    LET msgs == a.world.messages
        read == [a EXCEPT !.world.messages = @ \ {"DialogFileLoaded", "FileSaved", "DialogFileSaved"}]
        loaded == IF "DialogFileLoaded" \in msgs THEN handle_load(read, data) ELSE read
        saved == IF "FileSaved" \in msgs
                 THEN [loaded EXCEPT !.world.path = TRUE, !.file.dirty = FALSE]
                 ELSE loaded
    IN  IF "DialogFileSaved" \in msgs
        THEN save_file([saved EXCEPT !.world.path = TRUE], written)
        ELSE saved

Written == {"ok", "err"}

\* The edits made in the close machine: the east connection of the first tile.
CloseEdits ==
    {ChangeConnection(TileRange(MpsVec2(0, 0), MpsVec2(0, 0)), "East", <<c>>) :
        c \in {Passable, Blocked}}

InitClose ==
    /\ mode = "close"
    /\ file = LoadedFile_default
    /\ world = UiState_default
    /\ crashed = None
    /\ tick = [requests |-> <<>>, executed |-> <<>>, cancelled |-> {}, dont_save |-> {}]

\* The app after a system, within the bound on the registered actions.
Becomes(a) ==
    /\ Len(a.tick.requests) <= MaxRequests
    /\ file' = a.file /\ world' = a.world /\ tick' = a.tick
    /\ UNCHANGED <<mode, crashed, atlasVars, iterVars, meshVars>>

Open == mode = "close" /\ world.window

DrawImgui ==
    /\ Open
    /\ \E item \in {"", "New", "Open", "Save", "Save as", "Quit"},
          button \in {"", "Cancel", "Don't Save", "Save"}, written \in Written :
         Becomes(draw_imgui(App(file, world, tick), item, button, written))

KeyboardHandler ==
    /\ Open
    /\ \E key \in {"Ctrl+N", "Ctrl+O", "Ctrl+Shift+S", "Ctrl+S", "Ctrl+Shift+Z", "Ctrl+Z"},
          written \in Written :
         Becomes(keyboard_handler(App(file, world, tick), key, written))

CloseHandler ==
    /\ Open
    /\ Becomes(close_handler(App(file, world, tick)))

FileStateHandler ==
    /\ Open
    /\ \E data \in {None} \cup {Some(f) : f \in OnDisk}, written \in Written :
         Becomes(file_state_handler(App(file, world, tick), data, written))

\* The user edits the document: file.edit_map(&mut commands, edit).
EditDocument ==
    /\ Open
    /\ \E edit \in CloseEdits :
         \E r \in {edit_map(file, edit)} :
            /\ Bounded(r.lf) /\ r.panic = None
            /\ Becomes(App(r.lf, world, tick))

\* The user answers a file dialog: with a file, and the dialog writes its message, or
\* by closing it.
AnswerDialog ==
    /\ Open
    /\ \E dialog \in world.dialogs, chosen \in BOOLEAN :
         Becomes(App(file,
                     [world EXCEPT !.dialogs = @ \ {dialog},
                                   !.messages = IF ~chosen THEN @
                                                ELSE IF dialog = "load" THEN @ \cup {"DialogFileLoaded"}
                                                ELSE @ \cup {"DialogFileSaved"}],
                     tick))

\* The user closes the window: the window system writes WindowCloseRequested.
RequestWindowClose ==
    /\ Open
    /\ Becomes(App(file, [world EXCEPT !.messages = @ \cup {"WindowCloseRequested"}], tick))

SpecCloseInit == InitClose /\ IdleAtlas /\ IdleIter /\ IdleMesh
SpecCloseNext ==
    \/ DrawImgui \/ KeyboardHandler \/ CloseHandler \/ FileStateHandler
    \/ EditDocument \/ AnswerDialog \/ RequestWindowClose
SpecClose == SpecCloseInit /\ [][SpecCloseNext]_vars

(***************************************************************************)
(* Claims about mesh_map (checked under SpecMesh).                         *)
(***************************************************************************)
\* The mesh bundle of the last remesh.
built == mesh[1]

\* The faces of one kind in the atlas mesh st, as indices into st.faces.
FacesOfKind(st, kind) == {i \in 1 .. Len(st.faces) : st.faces[i].kind = kind}

\* The faces of one kind that belong to the side dir of the tile at (x, y).
FacesAt(st, kind, x, y, dir) ==
    {i \in FacesOfKind(st, kind) :
        st.faces[i].x = x /\ st.faces[i].y = y /\ st.faces[i].dir = dir}

\* The blocks among the block and trim children.
BlocksOf(b) == {i \in 1 .. Len(b.block_children) : b.block_children[i].kind = "block"}

\* The trims of the side of the tile at (x, y).
TrimsAt(b, x, y, side) ==
    {i \in 1 .. Len(b.block_children) :
        /\ b.block_children[i].kind = "trim"
        /\ b.block_children[i].x = x /\ b.block_children[i].y = y
        /\ b.block_children[i].side = side}

\* The coordinates (x, y) of the map's tiles.
TilesOf(m) == (0 .. m.cols - 1) \X (0 .. m.rows - 1)

\* The scenario of C1: one tile, Flat{0}, all four connections Unconditional(false).
SingleVoidTileMap ==
    /\ map.rows = 1 /\ map.cols = 1
    /\ At(map, 0, 0).height = Flat(0)
    /\ At(map, 0, 0).connections = ConnectionMap(Blocked)

\* C1 as stated: for a 1x1 map whose tile is Flat{0} with all connections
\* Unconditional(false), mesh_map produces exactly 1 top quad, 0 wall quads and
\* 0 blocks.
C1_OneTopQuad ==
    (mesh # None /\ SingleVoidTileMap) =>
        /\ Cardinality(FacesOfKind(built.mesh, "top")) = 1
        /\ Cardinality(FacesOfKind(built.mesh, "wall")) = 0
        /\ Cardinality(BlocksOf(built)) = 0

\* C1 amended: for that map mesh_map produces no top quad, no wall quad and no
\* block: the tile has the default height and is skipped, so the atlas mesh is
\* empty, and only the floor quad is built.
C1_VoidTileSkipped ==
    (mesh # None /\ SingleVoidTileMap) =>
        /\ Cardinality(FacesOfKind(built.mesh, "top")) = 0
        /\ Cardinality(FacesOfKind(built.mesh, "wall")) = 0
        /\ Cardinality(BlocksOf(built)) = 0
        /\ built.mesh.positions = <<>>
        /\ Len(built.floor.positions) = 4

\* C1 witness: the 1x1 map of the scenario has been meshed.
C1_Witness == mesh # None /\ SingleVoidTileMap

\* ceil(h) and frac(h) (1.0 when h is whole) of a height h > 0, in position units.
CeilUnits(h) == (h + PosScale - 1) \div PosScale
FracOrWhole(h) == IF h % PosScale = 0 THEN PosScale ELSE h % PosScale

\* The V-span of the face i of the atlas mesh st: the largest v minus the smallest.
VSpan(st, i) ==
    LET vs == {st.uvs[st.faces[i].start + k][2] : k \in 1 .. st.faces[i].n}
    IN  (CHOOSE hi \in vs : \A v \in vs : v <= hi) - (CHOOSE lo \in vs : \A v \in vs : lo <= v)

\* The case of C2: the tile at (x, y) is flat with a height above 0, and its side d
\* faces the map boundary or a void neighbour.
FlatFacingVoid(x, y, d) ==
    LET tile == At(map, y, x)
    IN  /\ ~tile.height.ramp /\ tile.height.pos > 0
        /\ \/ ~has_neighbor(map, x, y, d)
           \/ neighbor(map, x, y, d).height = TileHeight_default

\* The segments of the side d of the tile at (x, y) are ceil(h) many, one for each
\* unit 0 .. ceil(h) - 1; the topmost spans frac(h) x V_INCREMENT and the others
\* V_INCREMENT, each less inset.
SegmentsAsClaimed(x, y, d, inset) ==
    LET h == At(map, y, x).height.pos
        segs == FacesAt(built.mesh, "wall", x, y, d)
    IN  /\ Cardinality(segs) = CeilUnits(h)
        /\ {built.mesh.faces[i].seg : i \in segs} = 0 .. CeilUnits(h) - 1
        /\ \A i \in segs :
             VSpan(built.mesh, i) =
                IF built.mesh.faces[i].seg = CeilUnits(h) - 1
                THEN (FracOrWhole(h) * V_INCREMENT) \div PosScale - inset
                ELSE V_INCREMENT - inset

\* C2 as stated: on a side of a flat tile of height h > 0 that faces the map boundary
\* or a void neighbour, mesh_wall emits exactly ceil(h) segments; the topmost one's
\* V-span is frac(h) x V_INCREMENT (a full band when h is whole) and every segment
\* below it spans a full 1.0 x V_INCREMENT band.
C2_SegmentsSpanFullBands ==
    mesh # None =>
        \A t \in TilesOf(map), d \in Directions :
            FlatFacingVoid(t[1], t[2], d) => SegmentsAsClaimed(t[1], t[2], d, 0)

\* C2 amended: on such a side whose wall material stack is not empty, mesh_wall emits
\* exactly ceil(h) segments; the topmost one's V-span is frac(h) x V_INCREMENT less
\* the two atlas insets of 0.001 (a full band less the insets when h is whole), and
\* every segment below it spans V_INCREMENT less the two insets.
C2_SegmentsSpanInsetBands ==
    mesh # None =>
        \A t \in TilesOf(map), d \in Directions :
            (FlatFacingVoid(t[1], t[2], d) /\ At(map, t[2], t[1]).wall_material[d] # <<>>)
                => SegmentsAsClaimed(t[1], t[2], d, 2 * UvInset)

\* C2 witness: a flat tile of height 2.6 whose stack is shorter than its three
\* segments has been meshed with its north side facing a void neighbour and its west
\* side the map boundary.
C2_Witness ==
    /\ mesh # None
    /\ map.rows = 2 /\ map.cols = 1
    /\ At(map, 0, 0).height = TileHeight_default
    /\ At(map, 1, 0).height = Flat(H(260))
    /\ Len(At(map, 1, 0).wall_material["North"]) = 2
    /\ Cardinality(FacesAt(built.mesh, "wall", 0, 1, "North")) = 3
    /\ Cardinality(FacesAt(built.mesh, "wall", 0, 1, "West")) = 3

\* mesh_map built a wall on the side d of the tile at (x, y): it called mesh_wall.
WallBuilt(x, y, d) == <<x, y, d>> \in built.wall_calls

\* A wall is built on side d exactly if the neighbour's min_height() is below the
\* tile's height, and without a wall being built there is no wall quad on the side.
WallIffNeighborLower(x, y, d) ==
    LET tile == At(map, y, x)
        lower == min_height(neighbor(map, x, y, d).height) < tile.height.pos
    IN  /\ WallBuilt(x, y, d) <=> lower
        /\ ~lower => FacesAt(built.mesh, "wall", x, y, d) = {}

\* C3 as stated: for a flat tile with a neighbour in direction d, mesh_map builds a
\* wall on side d if and only if the neighbour's min_height() is strictly less than
\* the tile's height; between two adjacent flat tiles of equal height no wall quad is
\* emitted on the facing sides.
C3_WallIffNeighborLower ==
    mesh # None =>
        \A t \in TilesOf(map), d \in Directions :
            (~At(map, t[2], t[1]).height.ramp /\ has_neighbor(map, t[1], t[2], d))
                => WallIffNeighborLower(t[1], t[2], d)

\* C3 amended: the same for a flat tile whose height is not the default Flat{0}; a
\* tile of the default height is void and gets no wall, whatever its neighbours.
C3_NonVoidWallIffNeighborLower ==
    mesh # None =>
        \A t \in TilesOf(map), d \in Directions :
            LET tile == At(map, t[2], t[1])
            IN  /\ (~tile.height.ramp /\ tile.height # TileHeight_default
                       /\ has_neighbor(map, t[1], t[2], d))
                      => WallIffNeighborLower(t[1], t[2], d)
                /\ tile.height = TileHeight_default => ~WallBuilt(t[1], t[2], d)

\* C3 witness: a row of three flat tiles has been meshed, the first two of equal
\* height 2.0 with a passable connection, the third below them, so that the middle
\* tile has a wall on its east side and none on its west side.
C3_Witness ==
    /\ mesh # None
    /\ map.rows = 1 /\ map.cols = 3
    /\ At(map, 0, 0).height = Flat(H(200))
    /\ At(map, 0, 1).height = Flat(H(200))
    /\ At(map, 0, 2).height = Flat(H(-100))
    /\ At(map, 0, 1).connections = ConnectionMap(Passable)
    /\ At(map, 0, 1).wall_material["East"] # <<>>
    /\ WallBuilt(1, 0, "East") /\ ~WallBuilt(1, 0, "West")
    /\ FacesAt(built.mesh, "wall", 1, 0, "East") # {}

\* The sides whose trims run along the step from a tile to its neighbour in direction d.
SidesAlong(d) == IF d \in {"North", "South"} THEN {"West", "East"} ELSE {"North", "South"}

\* The height of a ramp's edge that adjoins the tile it is the neighbour of in
\* direction d: neg is the north or west edge, pos the south or east edge.
AdjoiningEdge(h, d) == IF d \in {"South", "East"} THEN h.neg ELSE h.pos

\* The coordinates of the neighbour in direction d of the tile at (x, y).
Toward(x, y, d) ==
    CASE d = "West" -> <<x - 1, y>>
      [] d = "East" -> <<x + 1, y>>
      [] d = "North" -> <<x, y - 1>>
      [] d = "South" -> <<x, y + 1>>

Opposite(d) ==
    CASE d = "West" -> "East"
      [] d = "East" -> "West"
      [] d = "North" -> "South"
      [] d = "South" -> "North"

\* The case of C5: the tile at (x, y) is flat, its neighbour in direction d is a ramp
\* that slopes along d, adjoins the tile at the tile's height and drops below it, and
\* both emit a trim on the side s.  Neither tile has another neighbour along d, so
\* that the offsets and extensions of the two trims come from this step alone.
FlatMeetsRamp(x, y, d, s) ==
    LET tile == At(map, y, x)
        nb == neighbor(map, x, y, d)
        n == Toward(x, y, d)
    IN  /\ ~tile.height.ramp /\ tile.height # TileHeight_default
        /\ nb.height.ramp
        /\ nb.height.dir = (IF d \in {"North", "South"} THEN "Vertical" ELSE "Horizontal")
        /\ AdjoiningEdge(nb.height, d) = tile.height.pos
        /\ min_height(nb.height) < tile.height.pos
        /\ ~has_neighbor(map, x, y, Opposite(d)) /\ ~has_neighbor(map, n[1], n[2], d)
        /\ TrimsAt(built, x, y, s) # {} /\ TrimsAt(built, n[1], n[2], s) # {}

\* The trims of the flat tile at (x, y) and of the ramp in direction d on the side s
\* are complementary: the flat tile's offset and the ramp's counter-offset are each
\* half of the same extension, which is not zero.
TrimsComplementary(x, y, d, s) ==
    LET n == Toward(x, y, d)
    IN  \A i \in TrimsAt(built, x, y, s), j \in TrimsAt(built, n[1], n[2], s) :
            LET flat == built.block_children[i]
                ramp == built.block_children[j]
            IN  /\ ramp.extension > 0
                /\ 2 * Abs(flat.offset) = ramp.extension
                /\ flat.extension = ramp.extension

\* C5 as stated: where a flat tile adjoins a ramp whose lower edge drops below the
\* flat tile's height and both emit a trim along the step, the flat tile's trim
\* offset/extension and the ramp's counter-offset are complementary (one
\* half-extension each), so that the two strips meet at the shared edge.
C5_TrimSeamCloses ==
    mesh # None =>
        \A t \in TilesOf(map), d \in Directions :
            has_neighbor(map, t[1], t[2], d) =>
                \A s \in SidesAlong(d) :
                    FlatMeetsRamp(t[1], t[2], d, s) => TrimsComplementary(t[1], t[2], d, s)

\* The face i of the atlas mesh st is textured with the material mat: its texture
\* coordinates lie on the two u edges of the material's atlas cell and start at the
\* cell's v1.
TexturedWith(st, i, mat) ==
    LET rect == to_uv_coords(mat)
        uvs == {st.uvs[st.faces[i].start + k] : k \in 1 .. st.faces[i].n}
    IN  /\ {p[1] : p \in uvs} = {rect[1], rect[3]}
        /\ rect[2] \in {p[2] : p \in uvs}

\* The number of the wall segment face i counted from the top of its wall, 0 being
\* the topmost.
SegmentFromTop(st, i) ==
    LET f == st.faces[i]
    IN  wall_segments(min_height(At(map, f.y, f.x).height)) - 1 - f.seg

\* C15: for a wall whose material stack is non-empty with length L, the wall segment
\* i (0 = topmost) is textured with materials[min(i, L - 1)]: the last entry of a
\* stack shorter than the number of segments is reused for every remaining segment.
C15_SegmentMaterialClamped ==
    mesh # None =>
        \A i \in FacesOfKind(built.mesh, "wall") :
            LET f == built.mesh.faces[i]
                materials == At(map, f.y, f.x).wall_material[f.dir]
                L == Len(materials)
            IN  L > 0 =>
                    TexturedWith(built.mesh, i,
                                 materials[Min(SegmentFromTop(built.mesh, i), L - 1) + 1])

\* C15 witness: a wall has been meshed whose stack of two different materials is
\* shorter than its three segments, the bottom one of which is there.
C15_Witness ==
    /\ mesh # None
    /\ \E i \in FacesOfKind(built.mesh, "wall") :
          LET f == built.mesh.faces[i]
              materials == At(map, f.y, f.x).wall_material[f.dir]
          IN  /\ Len(materials) = 2 /\ materials[1] # materials[2]
              /\ f.seg = 0
              /\ SegmentFromTop(built.mesh, i) = 2

\* C19: for every non-void tile, flat or ramp, and every direction d in which the
\* tile has no neighbour (map boundary), mesh_map builds a wall on side d.
C19_BoundaryWallBuilt ==
    mesh # None =>
        \A t \in TilesOf(map), d \in Directions :
            (At(map, t[2], t[1]).height # TileHeight_default
                /\ ~has_neighbor(map, t[1], t[2], d))
                => WallBuilt(t[1], t[2], d)

\* The neighbour on side d of the tile at (x, y) takes over at the segment seg: its
\* min_height() is at least the segment's base height.
NeighbourTakesOver(x, y, d, seg) ==
    /\ has_neighbor(map, x, y, d)
    /\ min_height(neighbor(map, x, y, d).height) >= seg * PosScale

\* The segments of the wall on side d of the tile at (x, y), of segs segments, that
\* are emitted as C20 has it: every segment from the top down to the first one at
\* which the neighbour takes over, all of them if there is no such segment.
SegmentsDownToTakeOver(x, y, d, segs) ==
    {s \in 0 .. segs - 1 : \A above \in s + 1 .. segs - 1 : ~NeighbourTakesOver(x, y, d, above)}

\* The wall segment faces of the side d of the tile at (x, y) are the segments of want
\* exactly, one face each, emitted from the top down.
EmittedTopDown(x, y, d, want) ==
    LET segs == FacesAt(built.mesh, "wall", x, y, d)
    IN  /\ {built.mesh.faces[i].seg : i \in segs} = want
        /\ Cardinality(segs) = Cardinality(want)
        /\ \A i, j \in segs : i < j => built.mesh.faces[i].seg > built.mesh.faces[j].seg

\* The segments min_height().ceil() of the tile at (x, y): none for a height that is
\* not above 0.
SegmentsOf(x, y) ==
    LET h == min_height(At(map, y, x).height)
    IN  IF h <= 0 THEN 0 ELSE CeilUnits(h)

\* C20 as stated: the segments of every wall that is built are emitted top-down and
\* emission stops as soon as the neighbouring tile's min_height() is >= the current
\* segment's base height: that segment is the last one emitted; with no neighbour all
\* ceil(min_height) segments down to 0 are emitted.
C20_SegmentsStopAtNeighbour ==
    mesh # None =>
        \A t \in TilesOf(map), d \in Directions :
            WallBuilt(t[1], t[2], d) =>
                EmittedTopDown(t[1], t[2], d,
                               SegmentsDownToTakeOver(t[1], t[2], d, SegmentsOf(t[1], t[2])))

\* C20 amended: the same for every wall that is built with a non-empty material
\* stack; a wall whose stack is empty has no segment.
C20_StackedSegmentsStopAtNeighbour ==
    mesh # None =>
        \A t \in TilesOf(map), d \in Directions :
            WallBuilt(t[1], t[2], d) =>
                IF At(map, t[2], t[1]).wall_material[d] # <<>>
                THEN EmittedTopDown(t[1], t[2], d,
                                    SegmentsDownToTakeOver(t[1], t[2], d,
                                                           SegmentsOf(t[1], t[2])))
                ELSE FacesAt(built.mesh, "wall", t[1], t[2], d) = {}

\* C20 witness: a flat tile of height 2.6 has been meshed with a neighbour of height
\* 2.0 to its east, which takes over at the topmost segment, and the map boundary to
\* its west, where all three segments are emitted.
C20_Witness ==
    /\ mesh # None
    /\ map.rows = 1 /\ map.cols = 2
    /\ At(map, 0, 0).height = Flat(H(260))
    /\ At(map, 0, 1).height = Flat(H(200))
    /\ At(map, 0, 0).wall_material["East"] # <<>>
    /\ {built.mesh.faces[i].seg : i \in FacesAt(built.mesh, "wall", 0, 0, "East")} = {2}
    /\ {built.mesh.faces[i].seg : i \in FacesAt(built.mesh, "wall", 0, 0, "West")} = {0, 1, 2}

(***************************************************************************)
(* Claims about the atlas mapping (checked under SpecAtlas).               *)
(***************************************************************************)

\* C7: for every material index i in [0,256), to_uv_coords returns (u1,v1,u2,v2)
\* with 0 <= u1 < u2 <= 1 and 0 <= v1 < v2 <= 1 (1 is UvScale texture units).
C7_UvRectInsideAtlas ==
    uv # None =>
        /\ 0 <= uv[1] /\ uv[1] < uv[3] /\ uv[3] <= UvScale
        /\ 0 <= uv[2] /\ uv[2] < uv[4] /\ uv[4] <= UvScale

\* C7 witness: the rectangle of a material of the top atlas row has been computed
\* (its v2 is the one closest to 1).
C7_Witness == uv # None /\ material = 3

\* C8: the atlas mapping round-trips: from_uv_coords at the centre of the rectangle
\* to_uv_coords(i) returns is i again, and no other index has the same centre.
C8_CentreRoundTrips ==
    decoded # None =>
        /\ decoded = Some(material)
        /\ \A i \in 0 .. TEXTURES_COUNT - 1 :
             i # material =>
                <<center(to_uv_coords(i)[1], to_uv_coords(i)[3]),
                  center(to_uv_coords(i)[2], to_uv_coords(i)[4])>>
                # <<center(uv[1], uv[3]), center(uv[2], uv[4])>>

\* C8 witness: a material that is neither in the first row nor on the diagonal has
\* been mapped to its rectangle and decoded from the centre.
C8_Witness == decoded # None /\ material = 37

(***************************************************************************)
(* Claims about the TileRange iterator (checked under SpecIter).           *)
(***************************************************************************)

\* The k-th coordinate (from 0) of the inclusive rectangle r in row-major order.
RowMajor(r, k) ==
    LET w == r.end.x - r.start.x + 1
    IN  MpsVec2(r.start.x + (k % w), r.start.y + (k \div w))

\* C9: iterating a TileRange with start <= end yields every coordinate of the
\* inclusive rectangle exactly once, in row-major order (x fastest), then None;
\* the number of coordinates yielded is area(); a fresh into_iter restarts from start.
C9_RowMajorIteration ==
    (mode = "iter" /\ onlyNext) =>
        /\ Len(yielded) <= area(range)
        /\ \A k \in 1 .. Len(yielded) : yielded[k] = RowMajor(range, k - 1)
        /\ current # None => current = Some(RowMajor(range, Len(yielded)))
        /\ current = None <=> Len(yielded) = area(range)
        /\ (lastCall[1] = "next" /\ result = None) => Len(yielded) = area(range)
        /\ lastCall[1] = "into_iter" => (yielded = <<>> /\ current = Some(range.start))

\* C9 witness: a 3x2 range has been iterated to the end by next() alone, and the
\* call after the last coordinate returned None.
C9_Witness ==
    /\ mode = "iter" /\ onlyNext
    /\ range = TileRange(MpsVec2(0, 1), MpsVec2(2, 2))
    /\ Len(yielded) = 6
    /\ lastCall[1] = "next" /\ result = None

RECURSIVE NextTimes(_, _)
\* next() called k >= 1 times: the iterator after the calls and the last result.
NextTimes(it, k) ==
    IF k = 1 THEN next(it) ELSE NextTimes(next(it).it, k - 1)

\* C10: in every state of a TileRangeIterator and for every n, nth(n) returns the
\* same value and leaves the same state as n+1 calls of next(); it returns None and
\* leaves the iterator exhausted when fewer than n+1 coordinates remain.
C10_NthIsRepeatedNext ==
    [][(mode = "iter" /\ lastCall'[1] = "nth") =>
          /\ [it |-> [range |-> range', current |-> current'], result |-> result']
               = NextTimes(iterator, lastCall'[2] + 1)
          /\ len(iterator) < lastCall'[2] + 1 => (result' = None /\ current' = None)]_vars

\* C10 witness: nth(n) with n >= 3 was called on an iterator that had already
\* advanced and returned a coordinate of a later line.
C10_Witness ==
    /\ mode = "iter"
    /\ lastCall[1] = "nth" /\ lastCall[2] >= 3
    /\ result # None /\ result[1].y > range.start.y /\ result[1].x > range.start.x
    /\ current # None


(***************************************************************************)
(* Claims about mesh_top_highlights (checked under SpecHighlight).         *)
(***************************************************************************)
\* The selection and its highlight mesh.
selected == highlight[1]

\* The vertex positions of the face i of the mesh st.
FacePositions(st, i) == [k \in 1 .. st.faces[i].n |-> st.positions[st.faces[i].start + k]]

\* The positions ps, each moved up by dy.
Raised(ps, dy) == [k \in DOMAIN ps |-> <<ps[k][1], ps[k][2] + dy, ps[k][3]>>]

\* The highlight mesh holds one quad for each tile of the range, in the range's
\* row-major order, and nothing else.
OneQuadPerTile ==
    LET st == selected.mesh
        r == selected.range
    IN  /\ Len(st.faces) = area(r)
        /\ Len(st.positions) = 4 * area(r)
        /\ Len(st.uvs) = 4 * area(r)
        /\ Len(st.indices) = 6 * area(r)
        /\ \A k \in 1 .. Len(st.faces) :
             /\ st.faces[k].kind = "top" /\ st.faces[k].n = 4
             /\ MpsVec2(st.faces[k].x, st.faces[k].y) = RowMajor(r, k - 1)

\* The k-th quad of the highlight lies exactly 0.01 above the top face that mesh_map
\* emitted for the same tile.
AboveBaseTop(k) ==
    LET f == selected.mesh.faces[k]
        base == FacesAt(built.mesh, "top", f.x, f.y, "Top")
    IN  /\ Cardinality(base) = 1
        /\ \A b \in base :
             FacePositions(selected.mesh, k)
                = Raised(FacePositions(built.mesh, b), HighlightOffset)

\* The k-th quad of the highlight lies flat at Y = 0.01 over its tile, for which
\* mesh_map emitted no top face.
AboveFloor(k) ==
    LET f == selected.mesh.faces[k]
        ps == FacePositions(selected.mesh, k)
    IN  /\ FacesAt(built.mesh, "top", f.x, f.y, "Top") = {}
        /\ {<<ps[j][1], ps[j][3]>> : j \in 1 .. 4}
             = {<<f.x * PosScale + dx, f.y * PosScale + dz>> : dx \in {-Half, Half}, dz \in {-Half, Half}}
        /\ \A j \in 1 .. 4 : ps[j][2] = HighlightOffset

\* C6 as stated: for every tile in the TileRange, mesh_top_highlights emits exactly
\* one quad, and nothing else, whose four vertices have the X and Z of, and a Y
\* exactly 0.01 greater than, the vertices of the top face mesh_map emits for the tile.
C6_HighlightAboveTopFace ==
    highlight # None =>
        /\ OneQuadPerTile
        /\ \A k \in 1 .. Len(selected.mesh.faces) : AboveBaseTop(k)

\* C6 amended: the same for every tile of the range that is not void; for a void
\* tile (default height), for which mesh_map emits no top face, the one quad lies
\* over the tile at Y = 0.01.
C6_HighlightAboveTopFaceOrFloor ==
    highlight # None =>
        /\ OneQuadPerTile
        /\ \A k \in 1 .. Len(selected.mesh.faces) :
             IF At(map, selected.mesh.faces[k].y, selected.mesh.faces[k].x).height
                    = TileHeight_default
             THEN AboveFloor(k)
             ELSE AboveBaseTop(k)

\* C6 witness: a range of three tiles is highlighted that holds a void tile, a flat
\* tile of height 2.6 and a ramp.
C6_Witness ==
    /\ highlight # None /\ mesh # None
    /\ area(selected.range) = 3
    /\ \E a, b, c \in TilesOf(map) :
         /\ At(map, a[2], a[1]).height = TileHeight_default
         /\ At(map, b[2], b[1]).height = Flat(H(260))
         /\ At(map, c[2], c[1]).height.ramp

(***************************************************************************)
(* Claims about the document and the viewport (checked under SpecEditor).  *)
(***************************************************************************)
\* C11: whatever edits, undos and redos were made, the tile grid has at least one row
\* and at least one column.
C11_GridNeverEmpty == file.file.data.rows >= 1 /\ file.file.data.cols >= 1

\* A ShrinkMap has brought the grid down to one tile, where the next one is refused.
C11_Witness ==
    /\ file.file.data.rows = 1 /\ file.file.data.cols = 1
    /\ file.history_index = 1
    /\ file.history[1].forward.kind = "ShrinkMap"
    /\ crashed = None

\* C12: after a frame in which RemeshMap was handled, exactly one entity has the
\* MapMeshMarker, and it is the mesh built last: every older one is despawned.
C12_OneMapMesh == tick.remeshes > 0 => world.map_meshes = {NewestMesh}

\* An undo whose edit rebuilt the mesh twice over the frames (the edit, then its undo).
C12_Witness ==
    /\ tick.phase = "undone"
    /\ tick.remeshes > 0
    /\ crashed = None

\* C13: a frame in which several edits that change the mesh arrive rebuilds the mesh
\* once (the code bug is that it rebuilds it once for each edit).
C13_OneRebuildPerTick == (tick.mesh_edits >= 2 /\ crashed = None) => tick.remeshes = 1

(***************************************************************************)
(* Claims about edit_map and its callers (checked under SpecEditMap).      *)
(***************************************************************************)
\* The last edit apply_edit was given is a batch edit whose list of values does not
\* have the length of its range.
MismatchedBatch(lf) ==
    /\ lf.history_index > 0
    /\ LET edit == lf.history[lf.history_index].forward
       IN  /\ edit.kind \in {"ChangeHeight", "ChangeConnection", "ChangeMaterial"}
           /\ Len(edit.new) # area(edit.range)

C16_UndoRedoInverse ==
    tick.phase \in {"undone", "redone"} => tick.restored = Some(file.file)

\* The undo of a ShrinkMap on the east has brought the column back with its data.
C16_Witness ==
    /\ tick.phase = "undone"
    /\ file.history[file.history_index + 1].forward = ShrinkMap("East")
    /\ file.file.data.cols = 2
    /\ file.file.data.tiles[<<0, 1>>].height = Flat(F64_TENTH)
    /\ file.file.data.tiles[<<0, 1>>].wall_material["East"] = <<TopMaterial, 0>>

\* Undo and redo of an AdjustHeight on a height that is no multiple of a quarter.
C16_AdjustHeightRedone ==
    /\ tick.phase = "redone"
    /\ file.history[file.history_index].forward.kind = "AdjustHeight"
    /\ \E p \in DOMAIN file.file.data.tiles : file.file.data.tiles[p].height.pos.lo # 0

(***************************************************************************)
(* Claims about the markers and the selection (checked under SpecEditor).  *)
(***************************************************************************)
\* The markers of the document that are tile coordinates.
Markers(f) ==
    {f.starting_tile, f.star_warp_tile, f.podium_position}
    \cup {f.shop_warp_tiles[i] : i \in DOMAIN f.shop_warp_tiles}

\* C17: after any edits, gizmo resizes, undos and redos, the starting tile, the star
\* warp tile, the podium position and every shop warp tile lie inside the grid, and
\* no handler of the viewport has indexed the grid out of bounds.
C17_MarkersInsideGrid ==
    /\ \A pos \in Markers(file.file) : InGrid(file.file.data, pos)
    /\ crashed # Some(INDEX_OUT_OF_BOUNDS)

\* C18: when a remesh has run while tiles are selected, the selected range has
\* start <= end and lies inside the grid.
C18_SelectionInsideGrid ==
    (tick.remeshes > 0 /\ world.tiles # None)
        => (into_iter_ok(world.tiles[1]) /\ RangeInGrid(file.file.data, world.tiles[1]))

(***************************************************************************)
(* Further claims about mesh_map (checked under SpecMesh).                 *)
(***************************************************************************)
\* The side d runs along the slope of the ramp h: a Vertical ramp slopes from its
\* north edge to its south edge, so its west and east sides are the triangular ones
\* (internal_mesh_top gives neg to the two north corners and pos to the two south
\* ones), and a Horizontal ramp has them on its north and south sides.
AxisMatches(h, d) ==
    IF h.dir = "Vertical" THEN d \in {"West", "East"} ELSE d \in {"North", "South"}

\* The wall of the side d of the ramp at (x, y) starts with one triangular cap from
\* min_height up to max_height, and every rectangular segment of the side comes
\* after the cap and lies at or below min_height, the topmost one reaching it.
CapThenSegments(x, y, d) ==
    LET h == At(map, y, x).height
        st == built.mesh
        caps == FacesAt(st, "cap", x, y, d)
        segs == FacesAt(st, "wall", x, y, d)
    IN  /\ Cardinality(caps) = 1
        /\ \A c \in caps :
             /\ st.faces[c].n = 3
             /\ <<st.positions[st.faces[c].start + 1][2], st.positions[st.faces[c].start + 2][2],
                  st.positions[st.faces[c].start + 3][2]>>
                    = <<min_height(h), min_height(h), max_height(h)>>
             /\ \A w \in segs :
                  /\ c < w
                  /\ \A k \in 1 .. st.faces[w].n :
                       st.positions[st.faces[w].start + k][2] <= min_height(h)
        /\ min_height(h) > 0 =>
             \E w \in segs : \E k \in 1 .. st.faces[w].n :
                 st.positions[st.faces[w].start + k][2] = min_height(h)

\* A wall is built on the side d of the ramp at (x, y) exactly if the side runs along
\* the slope and the neighbour's center_height() is below the ramp's.
RampWallIffNeighborLower(x, y, d) ==
    LET tile == At(map, y, x)
    IN  WallBuilt(x, y, d) <=>
            /\ AxisMatches(tile.height, d)
            /\ center_height(neighbor(map, x, y, d).height) < center_height(tile.height)

\* C21 as stated: for a ramp tile with a neighbour in direction d, mesh_map builds a
\* wall on side d if and only if the ramp's axis matches d and that neighbour's
\* center_height() is strictly less than the ramp's center_height(); the wall then
\* starts with one triangular cap from min_height up to max_height followed by the
\* rectangular segments below min_height.
C21_RampWallWithCap ==
    mesh # None =>
        \A t \in TilesOf(map), d \in Directions :
            (At(map, t[2], t[1]).height.ramp /\ has_neighbor(map, t[1], t[2], d)) =>
                /\ RampWallIffNeighborLower(t[1], t[2], d)
                /\ WallBuilt(t[1], t[2], d) => CapThenSegments(t[1], t[2], d)

\* C21 amended: the same, the wall starting with the cap followed by the segments
\* when the side's wall material stack is not empty; with an empty stack the wall is
\* built without a cap and without segments.
C21_RampWallWithCapOfStack ==
    mesh # None =>
        \A t \in TilesOf(map), d \in Directions :
            (At(map, t[2], t[1]).height.ramp /\ has_neighbor(map, t[1], t[2], d)) =>
                /\ RampWallIffNeighborLower(t[1], t[2], d)
                /\ WallBuilt(t[1], t[2], d) =>
                     IF At(map, t[2], t[1]).wall_material[d] # <<>>
                     THEN CapThenSegments(t[1], t[2], d)
                     ELSE /\ FacesAt(built.mesh, "cap", t[1], t[2], d) = {}
                          /\ FacesAt(built.mesh, "wall", t[1], t[2], d) = {}

\* C21 witness: a Vertical ramp between 1.0 and 2.0 with wall materials has been
\* meshed between a lower flat tile on its west and a higher one on its east: it has
\* a capped wall on the west side, and none on the east, north and south sides.
C21_Witness ==
    /\ mesh # None
    /\ map.rows = 1 /\ map.cols = 3
    /\ At(map, 0, 0).height = Flat(H(-100))
    /\ At(map, 0, 1).height = Ramp("Vertical", H(200), H(100))
    /\ At(map, 0, 2).height = Flat(H(200))
    /\ At(map, 0, 1).wall_material["West"] # <<>>
    /\ WallBuilt(1, 0, "West") /\ ~WallBuilt(1, 0, "East")
    /\ Cardinality(FacesAt(built.mesh, "cap", 1, 0, "West")) = 1
    /\ Cardinality(FacesAt(built.mesh, "wall", 1, 0, "West")) = 1

\* The blocks of the side of the tile at (x, y).
BlocksAt(b, x, y, side) ==
    {i \in BlocksOf(b) : b.block_children[i].x = x /\ b.block_children[i].y = y
                            /\ b.block_children[i].side = side}

\* The tile at (x, y) has one block on its side d: it lies along the side, on top of
\* the tile, its middle line inset from the boundary line with the neighbour towards
\* the tile's centre (inset 0: centred on the boundary line).
BlockPlaced(x, y, d, inset) ==
    LET xf == x * PosScale
        yf == y * PosScale
        top == center_height(At(map, y, x).height) + BLOCK_SIZE_2
    IN  /\ Cardinality(BlocksAt(built, x, y, d)) = 1
        /\ \A i \in BlocksAt(built, x, y, d) :
             /\ built.block_children[i].translation =
                   CASE d = "West" -> <<xf - Half + inset, top, yf>>
                     [] d = "East" -> <<xf + Half - inset, top, yf>>
                     [] d = "North" -> <<xf, top, yf - Half + inset>>
                     [] d = "South" -> <<xf, top, yf + Half - inset>>
             /\ built.block_children[i].size =
                   IF d \in {"West", "East"} THEN <<BLOCK_SIZE, BLOCK_SIZE, PosScale>>
                   ELSE <<PosScale, BLOCK_SIZE, BLOCK_SIZE>>

\* The case of C24: the tile at (x, y) is flat, its connection in direction d is
\* impassible and its neighbour in d is not a ramp.
BlockedTowardFlat(x, y, d) ==
    /\ ~is_ramp(At(map, y, x))
    /\ impassible(At(map, y, x).connections[d])
    /\ has_neighbor(map, x, y, d)
    /\ ~is_ramp(neighbor(map, x, y, d))

\* C24 as stated: for a flat tile whose connection in direction d (any of the four
\* directions) is impassible and whose neighbour in d is a non-ramp tile of exactly
\* equal height, mesh_map places one block centred on the boundary line between the
\* two tiles; when the tile is strictly higher, it places one block inset by half the
\* block thickness toward the tile's centre.
C24_BlockOnBlockedEdge ==
    mesh # None =>
        \A t \in TilesOf(map), d \in Directions :
            BlockedTowardFlat(t[1], t[2], d) =>
                LET h == At(map, t[2], t[1]).height.pos
                    nh == neighbor(map, t[1], t[2], d).height.pos
                IN  /\ h = nh => BlockPlaced(t[1], t[2], d, 0)
                    /\ h > nh => BlockPlaced(t[1], t[2], d, BLOCK_SIZE_2)

\* C24 amended: the same for a flat tile that is not void, the block of two tiles of
\* equal height being placed for the direction West or North only: towards the east
\* or the south a tile of equal height gets no block (its neighbour places the one
\* block of the boundary), and a void tile gets no block at all.
C24_BlockOnBlockedEdgeOnce ==
    mesh # None =>
        \A t \in TilesOf(map), d \in Directions :
            BlockedTowardFlat(t[1], t[2], d) =>
                LET h == At(map, t[2], t[1]).height.pos
                    nh == neighbor(map, t[1], t[2], d).height.pos
                IN  IF At(map, t[2], t[1]).height = TileHeight_default
                    THEN BlocksAt(built, t[1], t[2], d) = {}
                    ELSE /\ h = nh =>
                              IF d \in {"West", "North"}
                              THEN BlockPlaced(t[1], t[2], d, 0)
                              ELSE BlocksAt(built, t[1], t[2], d) = {}
                         /\ h > nh => BlockPlaced(t[1], t[2], d, BLOCK_SIZE_2)

\* C24 witness: a row of three flat tiles with blocked connections has been meshed,
\* the first two of height 2.0 and the third below them: the middle tile has a block
\* centred on its west boundary and an inset block on its east side, and the first
\* tile has no block on its east side.
C24_Witness ==
    /\ mesh # None
    /\ map.rows = 1 /\ map.cols = 3
    /\ At(map, 0, 0).height = Flat(H(200))
    /\ At(map, 0, 1).height = Flat(H(200))
    /\ At(map, 0, 2).height = Flat(H(-100))
    /\ At(map, 0, 1).connections = ConnectionMap(Blocked)
    /\ BlockPlaced(1, 0, "West", 0)
    /\ BlockPlaced(1, 0, "East", BLOCK_SIZE_2)
    /\ BlocksAt(built, 0, 0, "East") = {}

\* C25: for every non-void tile and every direction d, mesh_map emits exactly one trim
\* strip on edge d if the neighbour in d is absent (map boundary) or is the void
\* sentinel (default height), and emits no trim on edge d otherwise.
C25_TrimOnExposedEdges ==
    mesh # None =>
        \A t \in TilesOf(map), d \in Directions :
            At(map, t[2], t[1]).height # TileHeight_default =>
                Cardinality(TrimsAt(built, t[1], t[2], d))
                    = IF \/ ~has_neighbor(map, t[1], t[2], d)
                         \/ neighbor(map, t[1], t[2], d).height = TileHeight_default
                      THEN 1 ELSE 0

\* C25 witness: a row of a void tile, a ramp and a flat tile has been meshed: the ramp
\* has a trim on its west edge, beside the void tile, and on its north and south
\* edges, at the map boundary, and none on its east edge, beside the flat tile.
C25_Witness ==
    /\ mesh # None
    /\ map.rows = 1 /\ map.cols = 3
    /\ At(map, 0, 0).height = TileHeight_default
    /\ At(map, 0, 1).height = Ramp("Horizontal", H(200), H(100))
    /\ At(map, 0, 2).height = Flat(H(200))
    /\ Cardinality(TrimsAt(built, 1, 0, "West")) = 1
    /\ Cardinality(TrimsAt(built, 1, 0, "North")) = 1
    /\ Cardinality(TrimsAt(built, 1, 0, "South")) = 1
    /\ TrimsAt(built, 1, 0, "East") = {}

(***************************************************************************)
(* Claims about mesh_map on maps with connections of every kind (checked   *)
(* under SpecGates).                                                       *)
(***************************************************************************)
\* The faces of the atlas mesh st that belong to the tile at (x, y).
FacesOfTile(st, x, y) == {i \in 1 .. Len(st.faces) : st.faces[i].x = x /\ st.faces[i].y = y}

\* The blocks and trims, and the key gates, that the tile at (x, y) pushed.
ChildrenOfTile(b, x, y) ==
    {i \in 1 .. Len(b.block_children) :
        b.block_children[i].x = x /\ b.block_children[i].y = y}

GatesOfTile(b, x, y) ==
    {i \in 1 .. Len(b.key_gates) : b.key_gates[i].x = x /\ b.key_gates[i].y = y}

\* C22: mesh_map emits geometry only for occupied tiles: the atlas mesh has exactly
\* one top quad for each tile whose height differs from the default Flat{0}, and a
\* tile of the default height contributes no top quad, wall, block, trim or gate.
C22_OnlyOccupiedTilesMeshed ==
    mesh # None =>
        \A t \in TilesOf(map) :
            IF At(map, t[2], t[1]).height # TileHeight_default
            THEN Cardinality(FacesOfTile(built.mesh, t[1], t[2])
                                \cap FacesOfKind(built.mesh, "top")) = 1
            ELSE /\ FacesOfTile(built.mesh, t[1], t[2]) = {}
                 /\ \A d \in Directions : ~WallBuilt(t[1], t[2], d)
                 /\ ChildrenOfTile(built, t[1], t[2]) = {}
                 /\ GatesOfTile(built, t[1], t[2]) = {}

\* C22 witness: a map of a void tile and a flat tile whose facing connections are
\* both locked and whose other connections are blocked has been meshed: the flat
\* tile, east of the void one, has its top quad, walls, trims and a gate.
C22_Witness ==
    /\ mesh # None
    /\ map.rows = 1 /\ map.cols = 2
    /\ At(map, 0, 0).height = TileHeight_default
    /\ At(map, 0, 0).connections["East"] = LOCKED_CONNECTION
    /\ At(map, 0, 1).height = Flat(H(200))
    /\ At(map, 0, 1).connections["West"] = LOCKED_CONNECTION
    /\ Cardinality(FacesOfKind(built.mesh, "top")) = 1
    /\ FacesAt(built.mesh, "wall", 1, 0, "West") # {}
    /\ TrimsAt(built, 1, 0, "West") # {}
    /\ GatesOfTile(built, 1, 0) # {}

\* The gates of the pair made of the tile at (x, y) and its neighbour in direction d,
\* whichever of the two pushed them.
GatesOfPair(x, y, d) ==
    LET n == Toward(x, y, d)
    IN  {i \in GatesOfTile(built, x, y) : built.key_gates[i].side = d}
        \cup {i \in GatesOfTile(built, n[1], n[2]) : built.key_gates[i].side = Opposite(d)}

\* The facing connections of the tile at (x, y) and of its neighbour in direction d
\* are both Conditional(Lock).
BothLocked(x, y, d) ==
    /\ At(map, y, x).connections[d] = LOCKED_CONNECTION
    /\ neighbor(map, x, y, d).connections[Opposite(d)] = LOCKED_CONNECTION

\* C23 as stated: for every pair of edge-adjacent tiles whose facing connections are
\* both Conditional(Lock), mesh_map produces exactly one key gate for that pair, and
\* it produces no gate for a pair where either facing connection is not
\* Conditional(Lock).
C23_OneGatePerLockedPair ==
    mesh # None =>
        \A t \in TilesOf(map), d \in {"West", "North"} :
            has_neighbor(map, t[1], t[2], d) =>
                Cardinality(GatesOfPair(t[1], t[2], d))
                    = IF BothLocked(t[1], t[2], d) THEN 1 ELSE 0

\* C23 amended: the same for the pairs whose east or south tile, the one the gate is
\* pushed for, is not of the default height; a pair whose east or south tile is void
\* gets no gate.
C23_OneGatePerLockedPairOfOccupiedTile ==
    mesh # None =>
        \A t \in TilesOf(map), d \in {"West", "North"} :
            has_neighbor(map, t[1], t[2], d) =>
                Cardinality(GatesOfPair(t[1], t[2], d))
                    = IF BothLocked(t[1], t[2], d)
                         /\ At(map, t[2], t[1]).height # TileHeight_default
                      THEN 1 ELSE 0

\* C23 witness: two flat tiles, one south of the other, with locked facing connections
\* have been meshed, and the pair has its one gate; the south tile's locked east side
\* has no gate.
C23_Witness ==
    /\ mesh # None
    /\ map.rows = 2 /\ map.cols = 1
    /\ At(map, 0, 0).height = Flat(H(200))
    /\ At(map, 1, 0).height = Flat(H(200))
    /\ BothLocked(0, 1, "North")
    /\ At(map, 1, 0).connections["East"] = LOCKED_CONNECTION
    /\ Cardinality(GatesOfPair(0, 1, "North")) = 1
    /\ Len(built.key_gates) = 1

(***************************************************************************)
(* Claims about the mesh accumulator (checked under SpecBuilder).          *)
(***************************************************************************)
\* The accumulator st is well formed: positions and uvs have the same length,
\* indices has a length that is a multiple of 3, and every index is less than
\* positions.len().
WellFormed(st) ==
    /\ Len(st.positions) = Len(st.uvs)
    /\ Len(st.indices) % 3 = 0
    /\ \A k \in 1 .. Len(st.indices) : st.indices[k] >= 0 /\ st.indices[k] < Len(st.positions)

\* C29: after every builder call on a mesh accumulator (internal_mesh_top, mesh_wall
\* with any direction, including walls whose material stack is empty and that emit
\* nothing), positions and uvs have the same length, indices has a length that is a
\* multiple of 3, and every index is less than positions.len().
C29_AccumulatorWellFormed == mode = "builder" => WellFormed(built.mesh)

\* C29 witness: two builder calls have been made on a map of a ramp with an empty
\* wall material stack, and the accumulator holds one top quad: the other call was a
\* mesh_wall that emitted nothing.
C29_Witness ==
    /\ mode = "builder"
    /\ built.calls = 2
    /\ map.rows = 1 /\ map.cols = 1
    /\ At(map, 0, 0).height = Ramp("Vertical", H(200), H(100))
    /\ At(map, 0, 0).wall_material = WallMaterialMap(<<>>)
    /\ Len(built.mesh.positions) = 4 /\ Len(built.mesh.indices) = 6

\* Walls with a cap have been added to an accumulator that held a quad.
C29_CappedWallAfterQuad ==
    /\ mode = "builder"
    /\ Len(built.mesh.faces) >= 3
    /\ built.mesh.faces[1].kind = "top"
    /\ built.mesh.faces[2].kind = "cap"
    /\ built.mesh.faces[3].kind = "wall"

(***************************************************************************)
(* Claims about the history (checked under SpecHistory).                   *)
(***************************************************************************)
\* The last call was the given one, it returned, and before is the document it was
\* made on.
Called(op) == tick.op = op /\ crashed = None

\* C26: in every state reached by any sequence of edit_map, undo and redo,
\* 0 <= history_index <= history.len(); undo and redo are no-ops at the respective
\* ends; and immediately after a successful edit_map history_index == history.len():
\* the items that could be redone are discarded, the new item follows those that
\* could be undone, and can_redo() is false.
C26_HistoryIndexInRange ==
    mode = "history" =>
        /\ file.history_index \in 0 .. Len(file.history)
        /\ (Called("undo") /\ tick.before[1].history_index = 0)
              => (file = tick.before[1] /\ tick.events = <<>>)
        /\ (Called("redo") /\ tick.before[1].history_index = Len(tick.before[1].history))
              => (file = tick.before[1] /\ tick.events = <<>>)
        /\ (Called("edit_map") /\ tick.returned)
              => /\ file.history_index = Len(file.history)
                 /\ file.history_index = tick.before[1].history_index + 1
                 /\ SubSeq(file.history, 1, tick.before[1].history_index)
                       = SubSeq(tick.before[1].history, 1, tick.before[1].history_index)
                 /\ file.history[file.history_index].forward = tick.edit[1]

\* C26 witness: edit_map has returned true on a document with two items of which only
\* the first was applied: the second item is gone, the new one is in its place.
C26_Witness ==
    /\ mode = "history"
    /\ Called("edit_map") /\ tick.returned
    /\ Len(tick.before[1].history) = 2 /\ tick.before[1].history_index = 1
    /\ Len(file.history) = 2 /\ file.history_index = 2
    /\ file.history[2] # tick.before[1].history[2]

\* undo has been called with nothing to undo while there was something to redo.
C26_UndoAtStart ==
    /\ mode = "history"
    /\ Called("undo")
    /\ tick.before[1].history_index = 0 /\ tick.before[1].history # <<>>

\* redo has been called with nothing to redo while there was something to undo.
C26_RedoAtEnd ==
    /\ mode = "history"
    /\ Called("redo")
    /\ tick.before[1].history_index = Len(tick.before[1].history)
    /\ tick.before[1].history # <<>>

\* The edit is a ShrinkMap along a dimension of the grid of lf of size below 2.
ShrinkBelowOne(lf, edit) ==
    /\ edit.kind = "ShrinkMap"
    /\ IF edit.side \in {"West", "East"} THEN lf.file.data.cols < 2 ELSE lf.file.data.rows < 2

\* C27: when edit_map rejects an edit and returns false, the edit was a ShrinkMap
\* along a dimension of size < 2 or was equal to its own reverse (a no-op), and the
\* document is left unchanged: the grid, the markers, history, history_index and
\* dirty keep their values, and no MapEdited event is triggered.
C27_RejectedEditChangesNothing ==
    (mode = "history" /\ Called("edit_map") /\ ~tick.returned) =>
        /\ \/ ShrinkBelowOne(tick.before[1], tick.edit[1])
           \/ tick.edit[1] = reversed(tick.before[1], tick.edit[1]).value
        /\ file = tick.before[1]
        /\ tick.events = <<>>

\* C27 witness: edit_map has returned false for an AdjustHeight by nothing on a
\* document that is dirty and has an item that can be redone.
C27_Witness ==
    /\ mode = "history"
    /\ Called("edit_map") /\ ~tick.returned
    /\ tick.edit[1].kind = "AdjustHeight"
    /\ file.dirty /\ file.history_index < Len(file.history)

\* edit_map has returned false for a ShrinkMap of a grid of one row.
C27_ShrinkRejected ==
    /\ mode = "history"
    /\ Called("edit_map") /\ ~tick.returned
    /\ ShrinkBelowOne(file, tick.edit[1])
    /\ file.history # <<>>

(***************************************************************************)
(* Claims about ListEdit (checked under SpecList).                         *)
(***************************************************************************)
\* C30: for every ListEdit e valid at index i of a vector v, applying e at i and then
\* e.reverse(old value of v[i]) at the same index i restores v exactly: the reverse
\* edit is valid on the edited vector, Set is undone by Set of the old item, Remove
\* by Insert of the removed item, Insert by Remove, MoveUp and MoveDown by themselves.
C30_ListEditReverseRestores ==
    mode = "list" =>
        /\ tick.step = "apply" =>
              /\ ~ListEdit_apply_panics(tick.back[1], tick.index, tick.vec)
              /\ ListEdit_apply(tick.back[1], tick.index, tick.vec) = tick.before[1]
              /\ tick.back[1] =
                    (CASE tick.edit[1].op = "Set" -> ListEdit_Set(tick.before[1][tick.index + 1])
                       [] tick.edit[1].op = "Remove" -> ListEdit_Insert(tick.before[1][tick.index + 1])
                       [] tick.edit[1].op = "Insert" -> ListEdit_Remove
                       [] OTHER -> tick.edit[1])
        /\ tick.step = "reverse" => tick.vec = tick.before[1]

\* C30 witness: a Set that changed the item in the middle of a vector of distinct
\* items has been undone.
C30_Witness ==
    /\ mode = "list"
    /\ tick.step = "reverse"
    /\ tick.edit[1].op = "Set" /\ tick.index = 1
    /\ tick.vec = <<0, 1, 2>> /\ tick.edit[1].value = 2

\* A Remove, an Insert at the end and a MoveDown have each been undone as well.
C30_RemoveUndone ==
    /\ mode = "list" /\ tick.step = "reverse"
    /\ tick.edit[1].op = "Remove" /\ tick.index = 1 /\ tick.vec = <<0, 1, 2>>

C30_InsertAtEndUndone ==
    /\ mode = "list" /\ tick.step = "reverse"
    /\ tick.edit[1].op = "Insert" /\ tick.index = 2 /\ tick.vec = <<0, 1>>

C30_MoveDownUndone ==
    /\ mode = "list" /\ tick.step = "reverse"
    /\ tick.edit[1].op = "MoveDown" /\ tick.index = 0 /\ tick.vec = <<0, 1, 2>>

(***************************************************************************)
(* Claims about closing the document (checked under SpecClose).            *)
(***************************************************************************)
\* C28: a close action registered with request_close_file (new file, open file,
\* window close) is executed at most once, and only when the file is not dirty at
\* that moment or the user chose "Don't Save" in the confirmation popup while the
\* action was pending; an action that was pending when the user chose Cancel is
\* never executed.
C28_CloseActionOnlyWhenAllowed ==
    mode = "close" =>
        /\ \A i, j \in DOMAIN tick.executed :
              tick.executed[i].action = tick.executed[j].action => i = j
        /\ \A i \in DOMAIN tick.executed :
              /\ ~tick.executed[i].dirty \/ tick.executed[i].action \in tick.dont_save
              /\ tick.executed[i].action \notin tick.cancelled
        /\ \A action \in tick.cancelled : action \notin Held(App(file, world, tick))

\* C28 witness: the first action was pending on a dirty document when the user chose
\* Cancel; the second, the close of the window, was run on the dirty document after
\* the user chose "Don't Save".
C28_Witness ==
    /\ mode = "close"
    /\ tick.cancelled = {1} /\ tick.dont_save = {2}
    /\ tick.requests[2] = "close_window"
    /\ tick.executed = <<[action |-> 2, dirty |-> TRUE]>>
    /\ ~world.window

\* An action that was pending on a dirty document when the user chose Save has run
\* once the document was written.
C28_RunAfterSave ==
    /\ mode = "close"
    /\ tick.requests = <<"new_file", "open_file">>
    /\ tick.executed = <<[action |-> 1, dirty |-> FALSE], [action |-> 2, dirty |-> FALSE]>>
    /\ tick.cancelled = {} /\ tick.dont_save = {}
    /\ "load" \in world.dialogs /\ world.path /\ file.history # <<>>

====
